---- MODULE Spec2Model ----
(***************************************************************************)
(* OracleBot combinatorial method-selection and backtesting engine.        *)
(*                                                                         *)
(* Numbers.  The engine computes with floats; the model computes with      *)
(* exact rationals [n, d] (d > 0, lowest terms).  Detector signals and     *)
(* confidences are integers in tenths, odds are integers in hundredths,    *)
(* timestamps are whole seconds (the resolution db._ts persists), and a    *)
(* cutoff fraction is an integer number of tenths.                         *)
(***************************************************************************)
EXTENDS Integers, Sequences, FiniteSets, TLC

VARIABLES
    \* ---- backtest_combo (engine/backtest.py) ----
    combo,                  \* the list of method ids under test
    market,                 \* the market the loop read last (NoMarket before)
    cutoff_fraction,        \* tenths
    pc,                     \* position of the running function
    mi,                     \* number of markets the loop has read
    correct,
    total_markets,
    edge_sum,
    false_positives,
    high_confidence_preds,
    cr,                     \* the ComboResults returned, NoResult before
    chain,                  \* what the chain of the last market did
    signal_confidence,                    \* (signal, confidence) of the last aggregation
    snap,                   \* the accumulators before the last market
    \* ---- the method_results table (data/db.py) ----
    db_rows,                \* the table as the open connection sees it
    db_committed,           \* the table as of the last commit
    db_seq,                 \* AUTOINCREMENT: the largest id handed out
    upserted,               \* (combo_id, fitness) upserted since the row was last pruned
    last_upsert,            \* the last insert_method_result call and the row it met
    \* ---- the tiered optimizer (engine/combinator.py) ----
    markets,                \* the train markets of the run
    work,                   \* combos (tier 1, 2) or method ids (tier 3) still to try
    tier_results,           \* results of the category (tier 1) or of tier 2 so far
    cat_i,                  \* index of the category tier 1 is in
    category_results,       \* the finalists of the categories done, in order
    tier2_top,
    seed_i,                 \* index of the seed tier 3 is climbing from
    current,
    current_fitness,
    phase,                  \* where tier 3 is within a seed
    refined,
    persisted,              \* was the result of the last backtest_combo call upserted
    evaluated,              \* (combo_id, fitness) of every result of the run so far
    \* ---- the analysis run (main.py, run_analysis) ----
    usable_resolved,        \* the resolved markets with enough bets, as loaded
    holdout_fraction,       \* the holdout_fraction handed to split_holdout
    train_markets,
    holdout_markets,
    holdout_none            \* holdout_markets is None: the run dropped a holdout too small

btVars == <<combo, market, cutoff_fraction, pc, mi, correct,
            total_markets, edge_sum, false_positives, high_confidence_preds,
            cr, chain, signal_confidence, snap>>

dbVars == <<db_rows, db_committed, db_seq, upserted, last_upsert>>

optVars == <<markets, work, tier_results, cat_i, category_results, tier2_top, seed_i,
             current, current_fitness, phase, refined, persisted, evaluated>>

runVars == <<usable_resolved, holdout_fraction, train_markets, holdout_markets,
             holdout_none>>

vars == <<btVars, dbVars, optVars, runVars>>

----------------------------------------------------------------------------
(* Bounds of the model *)

MaxMarkets == 2
MaxComboLen == 2
MaxResults == 2
MaxRowId == 3
MaxSplit == 5
MaxUsable == 22
MaxComplexity == 6

----------------------------------------------------------------------------
(* Exact rational arithmetic standing for Python floats *)

Abs(x) == IF x < 0 THEN 0 - x ELSE x

RECURSIVE GCD(_, _)
GCD(a, b) == IF b = 0 THEN a ELSE GCD(b, a % b)

Rat(n, d) ==
    LET g == GCD(Abs(n), Abs(d))
        s == IF d < 0 THEN 0 - 1 ELSE 1
    IN  IF n = 0 THEN [n |-> 0, d |-> 1]
        ELSE [n |-> (s * n) \div g, d |-> Abs(d) \div g]

RatInt(i) == [n |-> i, d |-> 1]
RatAdd(a, b) == Rat(a.n * b.d + b.n * a.d, a.d * b.d)
RatSub(a, b) == Rat(a.n * b.d - b.n * a.d, a.d * b.d)
RatMul(a, b) == Rat(a.n * b.n, a.d * b.d)
RatLess(a, b) == a.n * b.d < b.n * a.d
RatLeq(a, b) == a.n * b.d <= b.n * a.d
RatMin(a, b) == IF RatLess(b, a) THEN b ELSE a
RatMax(a, b) == IF RatLess(a, b) THEN b ELSE a
RatAbs(a) == [n |-> Abs(a.n), d |-> a.d]

----------------------------------------------------------------------------
(* Sequence helpers *)

RECURSIVE SumSeq(_)
SumSeq(s) == IF s = <<>> THEN 0 ELSE Head(s) + SumSeq(Tail(s))

RECURSIVE SelectSeqBy(_, _)
SelectSeqBy(s, keep) ==
    IF s = <<>> THEN <<>>
    ELSE IF keep[1] THEN <<Head(s)>> \o SelectSeqBy(Tail(s), Tail(keep))
         ELSE SelectSeqBy(Tail(s), Tail(keep))

Range(s) == {s[i] : i \in DOMAIN s}

RECURSIVE InsertSorted(_, _)
InsertSorted(x, s) ==
    IF s = <<>> THEN <<x>>
    ELSE IF x < Head(s) THEN <<x>> \o s
         ELSE <<Head(s)>> \o InsertSorted(x, Tail(s))

RECURSIVE SortInts(_)
SortInts(s) == IF s = <<>> THEN <<>> ELSE InsertSorted(Head(s), SortInts(Tail(s)))

\* statistics.median, as a rational
Median(s) ==
    LET t == SortInts(s)
        n == Len(t)
    IN  IF n % 2 = 1 THEN RatInt(t[(n + 1) \div 2])
        ELSE Rat(t[n \div 2] + t[(n \div 2) + 1], 2)

----------------------------------------------------------------------------
(* Data model (data/models.py) and the inputs the model draws from *)

NULL == "NULL"

Bet(w, s, a, o, t) ==
    [wallet |-> w, side |-> s, amount |-> a, odds |-> o, timestamp |-> t]

\* A Market together with bets_by_market.get(market.id)
Market(r, out, c, e, b) ==
    [resolved |-> r, outcome |-> out, created_at |-> c, end_date |-> e, bets |-> b]

NoMarket == Market(FALSE, NULL, 0, 0, <<>>)

BetsHigh ==
    << Bet("w1", "YES", 100, 97, 1), Bet("w2", "YES", 50, 97, 2),
       Bet("w3", "YES", 100, 98, 3), Bet("w1", "NO", 10, 3, 8),
       Bet("w2", "YES", 20, 3, 9) >>

BetsLow ==
    << Bet("w1", "NO", 100, 30, 1), Bet("w1", "NO", 50, 20, 2),
       Bet("w3", "YES", 10, 30, 4), Bet("w1", "NO", 100, 40, 6),
       Bet("w3", "NO", 20, 30, 7), Bet("w1", "YES", 500, 99, 9) >>

BetsMixed ==
    << Bet("w2", "YES", 100, 30, 1), Bet("w1", "NO", 200, 40, 3),
       Bet("w2", "YES", 100, 60, 5), Bet("w3", "NO", 50, 20, 6),
       Bet("w1", "YES", 900, 97, 10) >>

BetsFour ==
    << Bet("w1", "YES", 100, 97, 1), Bet("w1", "YES", 100, 97, 2),
       Bet("w3", "YES", 100, 97, 3), Bet("w1", "YES", 100, 97, 4) >>

BetsLate ==
    << Bet("w1", "NO", 100, 30, 1), Bet("w3", "NO", 100, 30, 2),
       Bet("w1", "NO", 100, 30, 8), Bet("w1", "NO", 100, 30, 9),
       Bet("w3", "NO", 100, 30, 10) >>

YesHigh == Market(TRUE, "YES", 0, 10, BetsHigh)
NoLow == Market(TRUE, "NO", 0, 10, BetsLow)
YesMixed == Market(TRUE, "YES", 0, 10, BetsMixed)
NoHigh == Market(TRUE, "NO", 0, 10, BetsHigh)
ZeroLifespan == Market(TRUE, "YES", 5, 5, BetsHigh)
Unresolved == Market(FALSE, NULL, 0, 10, BetsHigh)
NullOutcome == Market(TRUE, NULL, 0, 10, BetsLow)
FourBets == Market(TRUE, "NO", 0, 10, BetsFour)
NoBets == Market(TRUE, "YES", 0, 10, <<>>)
LateBets == Market(TRUE, "NO", 0, 10, BetsLate)

MarketKinds ==
    {YesHigh, NoLow, YesMixed, NoHigh, ZeroLifespan, Unresolved, NullOutcome,
     FourBets, NoBets, LateBets}

\* wallets: address -> Wallet; "w3" has no Wallet row
WALLETS ==
    [a \in {"w1", "w2"} |->
        IF a = "w1" THEN [rationality_score |-> 8, flagged_sandpit |-> FALSE]
        ELSE [rationality_score |-> 2, flagged_sandpit |-> TRUE]]

CutoffFractions == {7, 10}

----------------------------------------------------------------------------
(* The method registry (methods/__init__.py).  A detector is a black box   *)
(* behind the MethodFn contract; the registry of the model holds one       *)
(* deterministic stand-in per behaviour the engine has to cope with.       *)

MethodResult(sig, conf, fb) ==
    [ok |-> TRUE, signal |-> sig, confidence |-> conf, filtered_bets |-> fb]

Raised == [ok |-> FALSE, signal |-> RatInt(0), confidence |-> RatInt(0),
           filtered_bets |-> <<>>]

\* method_id -> (category, behaviour)
METHODS ==
    [m \in {"S1", "S3", "S4", "D5", "D6", "D7", "D8", "D9"} |->
        CASE m = "S1" -> [category |-> "S", fn |-> "always_yes"]
          [] m = "S3" -> [category |-> "S", fn |-> "raiser"]
          [] m = "S4" -> [category |-> "S", fn |-> "sandpit"]
          [] m = "D5" -> [category |-> "D", fn |-> "median_odds"]
          [] m = "D6" -> [category |-> "D", fn |-> "always_no"]
          [] m = "D7" -> [category |-> "D", fn |-> "fragile"]
          [] m = "D8" -> [category |-> "D", fn |-> "weak_no"]
          [] m = "D9" -> [category |-> "D", fn |-> "yes_side"]]

\* D6 is registered but removed from its category's search list
CATEGORIES ==
    [c \in {"S", "D"} |->
        IF c = "S" THEN <<"S1", "S3", "S4">> ELSE <<"D5", "D7", "D8", "D9">>]

CategoryOrder == <<"S", "D">>

UnknownId == "X0"

get_all_method_ids == <<"S1", "S3", "S4", "D5", "D6", "D7", "D8", "D9">>

\* fn(market, bets, wallets) -> MethodResult, or an exception
Detect(fn, mkt, bets, wallets) ==
    CASE fn = "always_yes" -> MethodResult(RatInt(1), RatInt(1), <<>>)
      [] fn = "always_no" -> MethodResult(RatInt(0 - 1), RatInt(1), <<>>)
      [] fn = "weak_no" -> MethodResult(Rat(0 - 1, 2), Rat(2, 10), <<>>)
      [] fn = "raiser" -> Raised
      [] fn = "fragile" ->
            IF Len(bets) < 4 THEN Raised
            ELSE MethodResult(Rat(1, 2), Rat(2, 10), SubSeq(bets, 1, Len(bets) - 1))
      [] fn = "yes_side" ->
            LET IsYes(b) == b.side = "YES"
            IN  MethodResult(RatInt(0), RatInt(0), SelectSeq(bets, IsYes))
      [] fn = "sandpit" ->
            LET Clean(b) == ~(b.wallet \in DOMAIN wallets
                              /\ wallets[b.wallet].flagged_sandpit)
                clean == SelectSeq(bets, Clean)
                IsYes(b) == b.side = "YES"
                yes == Len(SelectSeq(clean, IsYes))
                no == Len(clean) - yes
            IN  MethodResult(IF Len(clean) > 0 THEN Rat(yes - no, Len(clean))
                                               ELSE RatInt(0),
                             IF Len(clean) < Len(bets) THEN Rat(5, 10) ELSE Rat(1, 10),
                             clean)
      [] fn = "median_odds" ->
            IF bets = <<>> THEN MethodResult(RatInt(0), RatInt(0), bets)
            ELSE LET med == Median([i \in DOMAIN bets |-> bets[i].odds])
                 IN  IF RatLeq(RatInt(95), med)
                     THEN MethodResult(RatInt(1),
                              RatMin(RatInt(1), RatMul(RatSub(med, RatInt(90)), Rat(1, 10))),
                              bets)
                     ELSE IF RatLeq(med, RatInt(5))
                     THEN MethodResult(RatInt(0 - 1),
                              RatMin(RatInt(1), RatMul(RatSub(RatInt(10), med), Rat(1, 10))),
                              bets)
                     ELSE MethodResult(RatInt(0), RatInt(0), bets)

----------------------------------------------------------------------------
(* engine/fitness.py and config.py.  Weights are in hundredths. *)

FITNESS_W_ACCURACY == 35
FITNESS_W_EDGE == 35
FITNESS_W_FALSE_POS == 20
FITNESS_W_COMPLEXITY == 10
TOTAL_METHODS == 25
\* the divisor calculate_fitness writes out
FITNESS_COMPLEXITY_DIVISOR == 24

Weight(w) == Rat(w, 100)

FitnessWith(accuracy, edge, fpr, complexity, normalizer) ==
    RatSub(RatSub(RatAdd(RatMul(accuracy, Weight(FITNESS_W_ACCURACY)),
                         RatMul(edge, Weight(FITNESS_W_EDGE))),
                  RatMul(fpr, Weight(FITNESS_W_FALSE_POS))),
           RatMul(Rat(complexity, normalizer), Weight(FITNESS_W_COMPLEXITY)))

\* mutant: complexity // 24, the integer division
calculate_fitness_FloorDiv(r) ==
    FitnessWith(r.accuracy, r.edge_vs_market, r.false_positive_rate,
                (r.complexity \div FITNESS_COMPLEXITY_DIVISOR) * FITNESS_COMPLEXITY_DIVISOR,
                FITNESS_COMPLEXITY_DIVISOR)

calculate_fitness(r) ==
    FitnessWith(r.accuracy, r.edge_vs_market, r.false_positive_rate, r.complexity,
                FITNESS_COMPLEXITY_DIVISOR)

----------------------------------------------------------------------------
(* engine/backtest.py *)

MAX_BETS_PER_MARKET == 500
MIN_TOTAL_BETS == 5
MIN_VISIBLE_BETS == 3
HighConfidence == Rat(3, 10)

RECURSIVE SumRat(_)
SumRat(s) == IF s = <<>> THEN RatInt(0) ELSE RatAdd(Head(s), SumRat(Tail(s)))

\* mutant: the signals are averaged without their confidence weights
_aggregate_signals_Unweighted(results) ==
    IF results = <<>> THEN [signal |-> RatInt(0), confidence |-> RatInt(0)]
    ELSE LET total_weight == SumRat([i \in DOMAIN results |-> results[i].confidence])
         IN  IF total_weight = RatInt(0)
             THEN [signal |-> RatInt(0), confidence |-> RatInt(0)]
             ELSE LET plain == SumRat([i \in DOMAIN results |-> results[i].signal])
                      signal == RatMul(plain, Rat(1, Len(results)))
                      confidence == RatMul(total_weight, Rat(1, Len(results)))
                  IN  [signal |-> RatMax(RatInt(0 - 1), RatMin(RatInt(1), signal)),
                       confidence |-> RatMin(RatInt(1), confidence)]

_aggregate_signals(results) ==
    IF results = <<>> THEN [signal |-> RatInt(0), confidence |-> RatInt(0)]
    ELSE LET total_weight == SumRat([i \in DOMAIN results |-> results[i].confidence])
         IN  IF total_weight = RatInt(0)
             THEN [signal |-> RatInt(0), confidence |-> RatInt(0)]
             ELSE LET weighted == SumRat([i \in DOMAIN results |->
                                     RatMul(results[i].signal, results[i].confidence)])
                      signal == RatMul(weighted, Rat(total_weight.d, total_weight.n))
                      confidence == RatMul(total_weight, Rat(1, Len(results)))
                  IN  [signal |-> RatMax(RatInt(0 - 1), RatMin(RatInt(1), signal)),
                       confidence |-> RatMin(RatInt(1), confidence)]

\* engine/report.py, _run_best_combo lines 39-57: the report's own aggregation
RunBestComboAggregate(results) ==
    IF results = <<>> THEN [signal |-> RatInt(0), confidence |-> RatInt(0)]
    ELSE LET total_w == SumRat([i \in DOMAIN results |-> results[i].confidence])
         IN  IF total_w = RatInt(0)
             THEN [signal |-> RatInt(0), confidence |-> RatInt(0)]
             ELSE LET signal == RatMul(SumRat([i \in DOMAIN results |->
                                     RatMul(results[i].signal, results[i].confidence)]),
                                       Rat(total_w.d, total_w.n))
                      confidence == RatMul(total_w, Rat(1, Len(results)))
                  IN  [signal |-> RatMax(RatInt(0 - 1), RatMin(RatInt(1), signal)),
                       confidence |-> RatMin(RatInt(1), confidence)]

\* get_method(mid) for mid in combo: KeyError on an id the registry lacks
LookupFails(c) == \E i \in DOMAIN c : c[i] \notin DOMAIN METHODS

\* mutant: a market whose dates coincide is let through
PreCheck_ZeroLifespan(mkt) ==
    IF ~mkt.resolved \/ mkt.outcome = NULL THEN "unresolved"
    ELSE IF mkt.bets = <<>> \/ Len(mkt.bets) < MIN_TOTAL_BETS THEN "few_bets"
    ELSE IF mkt.end_date - mkt.created_at < 0 THEN "lifespan"
    ELSE "ok"

\* the three "continue" tests ahead of the visibility window
PreCheck(mkt) ==
    IF ~mkt.resolved \/ mkt.outcome = NULL THEN "unresolved"
    ELSE IF mkt.bets = <<>> \/ Len(mkt.bets) < MIN_TOTAL_BETS THEN "few_bets"
    ELSE IF mkt.end_date - mkt.created_at <= 0 THEN "lifespan"
    ELSE "ok"

\* b.timestamp <= created_at + lifespan * cutoff_fraction, in tenths of a second
BeforeCutoff(b, mkt, cf) ==
    b.timestamp * 10 <= mkt.created_at * 10 + (mkt.end_date - mkt.created_at) * cf

\* mutant: the whole bet history is handed on
VisibleBets_NoCutoff(mkt, cf) == mkt.bets

VisibleBets(mkt, cf) ==
    LET Vis(b) == BeforeCutoff(b, mkt, cf)
    IN  SelectSeq(mkt.bets, Vis)

CapBets(visible) ==
    IF Len(visible) > MAX_BETS_PER_MARKET
    THEN SubSeq(visible, Len(visible) - MAX_BETS_PER_MARKET + 1, Len(visible))
    ELSE visible

MarketWallets(visible, wallets) ==
    [a \in {visible[i].wallet : i \in DOMAIN visible} \cap DOMAIN wallets |-> wallets[a]]

NoAggregate == [signal |-> RatInt(0), confidence |-> RatInt(0)]

\* a chain so far: the results appended, the cursor current_bets, for every
\* detector called its id and the bets it was handed, whether an exception
\* left the chain, and the ids whose lookup failed inside the chain
NoChain == [results |-> <<>>, current_bets |-> <<>>, handed |-> <<>>,
            called |-> <<>>, raised |-> FALSE, lookup_failed |-> <<>>]

\* mutant: the try sits around the loop, so a raising detector ends the chain
ChainStep_Abort(st, mid, mkt, wallets) ==
    LET result == Detect(METHODS[mid].fn, mkt, st.current_bets, wallets)
        seen == [st EXCEPT !.handed = Append(@, st.current_bets),
                           !.called = Append(@, mid)]
    IN  IF result.ok
        THEN [seen EXCEPT !.results = Append(@, result),
                          !.current_bets = IF result.filtered_bets # <<>>
                                           THEN result.filtered_bets ELSE @]
        ELSE [seen EXCEPT !.raised = TRUE]

\* mutant: every detector is handed the bets the chain started from
ChainStep_NoCursor(st, mid, mkt, wallets) ==
    LET result == Detect(METHODS[mid].fn, mkt, st.current_bets, wallets)
        seen == [st EXCEPT !.handed = Append(@, st.current_bets),
                           !.called = Append(@, mid)]
    IN  IF result.ok THEN [seen EXCEPT !.results = Append(@, result)] ELSE seen

\* one turn of "for method_id, fn in method_fns": try / except Exception
ChainStep(st, mid, mkt, wallets) ==
    LET result == Detect(METHODS[mid].fn, mkt, st.current_bets, wallets)
        seen == [st EXCEPT !.handed = Append(@, st.current_bets),
                           !.called = Append(@, mid)]
    IN  IF result.ok
        THEN [seen EXCEPT !.results = Append(@, result),
                          !.current_bets = IF result.filtered_bets # <<>>
                                           THEN result.filtered_bets ELSE @]
        ELSE seen

RECURSIVE RunChain(_, _, _, _)
RunChain(fns, st, mkt, wallets) ==
    IF fns = <<>> \/ st.raised THEN st
    ELSE RunChain(Tail(fns), ChainStep(st, Head(fns), mkt, wallets), mkt, wallets)

Accumulators(c, t, e, f, h) ==
    [correct |-> c, total_markets |-> t, edge_sum |-> e,
     false_positives |-> f, high_confidence_preds |-> h]

\* mutant: a wrong prediction counts as a false positive whatever its confidence
Score_UngatedFalsePositive(acc, mkt, visible, results) ==
    LET agg == _aggregate_signals(results)
        predicted == IF RatLess(RatInt(0), agg.signal) THEN "YES" ELSE "NO"
        actual == mkt.outcome
        high == RatLess(HighConfidence, agg.confidence)
        market_odds == IF visible # <<>>
                       THEN Median([i \in DOMAIN visible |-> visible[i].odds])
                       ELSE RatInt(50)
        market_implied == IF RatLess(RatInt(50), market_odds) THEN "YES" ELSE "NO"
    IN  Accumulators(
            IF predicted = actual THEN acc.correct + 1 ELSE acc.correct,
            acc.total_markets + 1,
            IF predicted = actual /\ market_implied # actual
                THEN RatAdd(acc.edge_sum, RatAbs(agg.signal)) ELSE acc.edge_sum,
            IF predicted # actual
                THEN acc.false_positives + 1 ELSE acc.false_positives,
            IF high THEN acc.high_confidence_preds + 1 ELSE acc.high_confidence_preds)

\* mutant: every correct prediction adds its edge, whatever the market implied
Score_EdgeOnEveryHit(acc, mkt, visible, results) ==
    LET agg == _aggregate_signals(results)
        predicted == IF RatLess(RatInt(0), agg.signal) THEN "YES" ELSE "NO"
        actual == mkt.outcome
        high == RatLess(HighConfidence, agg.confidence)
    IN  Accumulators(
            IF predicted = actual THEN acc.correct + 1 ELSE acc.correct,
            acc.total_markets + 1,
            IF predicted = actual
                THEN RatAdd(acc.edge_sum, RatAbs(agg.signal)) ELSE acc.edge_sum,
            IF predicted # actual /\ high
                THEN acc.false_positives + 1 ELSE acc.false_positives,
            IF high THEN acc.high_confidence_preds + 1 ELSE acc.high_confidence_preds)

\* mutant: a signal of exactly 0 predicts YES
Score_YesOnZero(acc, mkt, visible, results) ==
    LET agg == _aggregate_signals(results)
        predicted == IF RatLeq(RatInt(0), agg.signal) THEN "YES" ELSE "NO"
        actual == mkt.outcome
        high == RatLess(HighConfidence, agg.confidence)
        market_odds == IF visible # <<>>
                       THEN Median([i \in DOMAIN visible |-> visible[i].odds])
                       ELSE RatInt(50)
        market_implied == IF RatLess(RatInt(50), market_odds) THEN "YES" ELSE "NO"
    IN  Accumulators(
            IF predicted = actual THEN acc.correct + 1 ELSE acc.correct,
            acc.total_markets + 1,
            IF predicted = actual /\ market_implied # actual
                THEN RatAdd(acc.edge_sum, RatAbs(agg.signal)) ELSE acc.edge_sum,
            IF predicted # actual /\ high
                THEN acc.false_positives + 1 ELSE acc.false_positives,
            IF high THEN acc.high_confidence_preds + 1 ELSE acc.high_confidence_preds)

\* lines 105-123: the market's contribution to the accumulators
Score(acc, mkt, visible, results) ==
    LET agg == _aggregate_signals(results)
        predicted == IF RatLess(RatInt(0), agg.signal) THEN "YES" ELSE "NO"
        actual == mkt.outcome
        high == RatLess(HighConfidence, agg.confidence)
        market_odds == IF visible # <<>>
                       THEN Median([i \in DOMAIN visible |-> visible[i].odds])
                       ELSE RatInt(50)
        market_implied == IF RatLess(RatInt(50), market_odds) THEN "YES" ELSE "NO"
    IN  Accumulators(
            IF predicted = actual THEN acc.correct + 1 ELSE acc.correct,
            acc.total_markets + 1,
            IF predicted = actual /\ market_implied # actual
                THEN RatAdd(acc.edge_sum, RatAbs(agg.signal)) ELSE acc.edge_sum,
            IF predicted # actual /\ high
                THEN acc.false_positives + 1 ELSE acc.false_positives,
            IF high THEN acc.high_confidence_preds + 1 ELSE acc.high_confidence_preds)

\* one turn of "for market in markets"
MarketIteration(acc, c, mkt, wallets, cf) ==
    LET pre == PreCheck(mkt)
        visible == CapBets(VisibleBets(mkt, cf))
        st == RunChain(c, [NoChain EXCEPT !.current_bets = visible], mkt,
                       MarketWallets(visible, wallets))
    IN  IF pre # "ok" THEN [status |-> pre, acc |-> acc, chain |-> NoChain]
        ELSE IF Len(VisibleBets(mkt, cf)) < MIN_VISIBLE_BETS
        THEN [status |-> "few_visible", acc |-> acc, chain |-> NoChain]
        ELSE IF st.raised THEN [status |-> "raised", acc |-> acc, chain |-> st]
        ELSE IF st.results = <<>> THEN [status |-> "no_results", acc |-> acc, chain |-> st]
        ELSE [status |-> "scored", acc |-> Score(acc, mkt, visible, st.results),
              chain |-> st]

\* Python's sorted() on the ids the model uses
IdOrder == <<"D5", "D6", "D7", "D8", "D9", "S1", "S3", "S4", "X0">>
IdRank(m) == CHOOSE i \in DOMAIN IdOrder : IdOrder[i] = m

\* ",".join(sorted(combo)), kept as the sorted tuple
ComboId(c) ==
    LET ranks == SortInts([i \in DOMAIN c |-> IdRank(c[i])])
    IN  [i \in DOMAIN ranks |-> IdOrder[ranks[i]]]

NoResult == [combo_id |-> <<>>, methods_used |-> <<>>, accuracy |-> RatInt(0),
             edge_vs_market |-> RatInt(0), false_positive_rate |-> RatInt(0),
             complexity |-> 0, fitness_score |-> RatInt(0)]

\* lines 125-139: the ComboResults built once the loop is over
ComboResults(c, acc) ==
    LET r == [combo_id |-> ComboId(c),
              methods_used |-> c,
              accuracy |-> IF acc.total_markets > 0
                           THEN Rat(acc.correct, acc.total_markets) ELSE RatInt(0),
              edge_vs_market |-> IF acc.total_markets > 0
                           THEN RatMul(acc.edge_sum, Rat(1, acc.total_markets))
                           ELSE RatInt(0),
              false_positive_rate |-> IF acc.high_confidence_preds > 0
                           THEN Rat(acc.false_positives, acc.high_confidence_preds)
                           ELSE RatInt(0),
              complexity |-> Len(c)]
    IN  [combo_id |-> r.combo_id, methods_used |-> r.methods_used,
         accuracy |-> r.accuracy, edge_vs_market |-> r.edge_vs_market,
         false_positive_rate |-> r.false_positive_rate, complexity |-> r.complexity,
         fitness_score |-> calculate_fitness(r)]

BACKTEST_CUTOFF_FRACTION == 7

RECURSIVE BacktestLoop(_, _, _, _, _)
BacktestLoop(acc, c, mkts, wallets, cf) ==
    IF mkts = <<>> THEN acc
    ELSE BacktestLoop(MarketIteration(acc, c, Head(mkts), wallets, cf).acc,
                      c, Tail(mkts), wallets, cf)

\* backtest_combo(combo, markets, bets_by_market, wallets) of registered ids,
\* with the default cutoff_fraction
backtest_combo(c, mkts, wallets) ==
    ComboResults(c, BacktestLoop(Accumulators(0, 0, RatInt(0), 0, 0), c, mkts,
                                 wallets, BACKTEST_CUTOFF_FRACTION))

----------------------------------------------------------------------------
(* data/db.py: the method_results table.  A row is a record; combo_id is   *)
(* UNIQUE and id is AUTOINCREMENT.                                          *)

Row(id, r) ==
    [id |-> id, combo_id |-> r.combo_id, methods_used |-> r.methods_used,
     accuracy |-> r.accuracy, edge_vs_market |-> r.edge_vs_market,
     false_positive_rate |-> r.false_positive_rate, complexity |-> r.complexity,
     fitness_score |-> r.fitness_score]

\* mutant: ON CONFLICT DO UPDATE without its WHERE clause
insert_method_result_NoWhere(rows, seq, r) ==
    IF \E x \in rows : x.combo_id = r.combo_id
    THEN [rows |-> {IF x.combo_id = r.combo_id
                    THEN [x EXCEPT !.accuracy = r.accuracy,
                                   !.edge_vs_market = r.edge_vs_market,
                                   !.false_positive_rate = r.false_positive_rate,
                                   !.complexity = r.complexity,
                                   !.fitness_score = r.fitness_score]
                    ELSE x : x \in rows},
          seq |-> seq]
    ELSE [rows |-> rows \cup {Row(seq + 1, r)}, seq |-> seq + 1]

\* INSERT ... ON CONFLICT(combo_id) DO UPDATE SET ... WHERE excluded.fitness_score
\* >= method_results.fitness_score (methods_used is not among the columns set)
insert_method_result(rows, seq, r) ==
    IF \E x \in rows : x.combo_id = r.combo_id
    THEN [rows |-> {IF x.combo_id = r.combo_id
                       /\ RatLeq(x.fitness_score, r.fitness_score)
                    THEN [x EXCEPT !.accuracy = r.accuracy,
                                   !.edge_vs_market = r.edge_vs_market,
                                   !.false_positive_rate = r.false_positive_rate,
                                   !.complexity = r.complexity,
                                   !.fitness_score = r.fitness_score]
                    ELSE x : x \in rows},
          seq |-> seq]
    ELSE [rows |-> rows \cup {Row(seq + 1, r)}, seq |-> seq + 1]

\* ORDER BY fitness_score DESC LIMIT keep leaves the order of equal scores
\* open: the model lets ties fall by ascending or by descending id
Outranks(x, y, asc) ==
    \/ RatLess(y.fitness_score, x.fitness_score)
    \/ /\ x.fitness_score = y.fitness_score
       /\ IF asc THEN x.id < y.id ELSE x.id > y.id

TopRows(rows, keep, asc) ==
    {x \in rows : Cardinality({y \in rows : Outranks(y, x, asc)}) < keep}

\* mutant: ORDER BY id instead of ORDER BY fitness_score DESC
prune_method_results_ById(rows, keep) ==
    {{x \in rows : Cardinality({y \in rows : y.id < x.id}) < keep}}

\* DELETE FROM method_results WHERE id NOT IN (SELECT id ... LIMIT keep)
prune_method_results(rows, keep) == {TopRows(rows, keep, asc) : asc \in BOOLEAN}

NoRow == Row(0, NoResult)

NoUpsert == [made |-> FALSE, r |-> NoResult, met |-> NoRow]

\* the row of the table with the combo_id of r, NoRow if there is none
RowOf(rows, r) ==
    IF \E x \in rows : x.combo_id = r.combo_id
    THEN CHOOSE x \in rows : x.combo_id = r.combo_id
    ELSE NoRow

DbEmpty ==
    /\ db_rows = {}
    /\ db_committed = {}
    /\ db_seq = 0
    /\ upserted = {}
    /\ last_upsert = NoUpsert

----------------------------------------------------------------------------
(* Python floats, as far as split_holdout needs them (engine/backtest.py
   line 42).  A float is an IEEE 754 double: DOUBLE_MANT_DIG significant
   bits, round to nearest, ties to even.  The carrier is a non-negative
   binary fixed-point number: an integer part ip and FRAC_BITS fraction
   bits fr, most significant first; sticky tells that bits below the
   carrier were cut off. *)

DOUBLE_MANT_DIG == 53
FRAC_BITS == 64

\* 2^e mod q, by repeated squaring
RECURSIVE Pow2Mod(_, _)
Pow2Mod(e, q) ==
    IF e = 0 THEN 1 % q
    ELSE LET h == Pow2Mod(e \div 2, q)
         IN  (h * h * (IF e % 2 = 1 THEN 2 ELSE 1)) % q

\* the first k bits of the binary expansion of r/q, 0 <= r < q
Expand(r, q, k) == [j \in 1..k |-> (2 * ((r * Pow2Mod(j - 1, q)) % q)) \div q]

\* what is left of r/q below those k bits
ExpandRem(r, q, k) == (r * Pow2Mod(k, q)) % q

RECURSIVE BitLen(_)
BitLen(i) == IF i = 0 THEN 0 ELSE 1 + BitLen(i \div 2)

\* the bit string b, read as a binary number, plus one
IncBits(b) ==
    LET zeros == {j \in DOMAIN b : b[j] = 0}
        z == CHOOSE j \in zeros : \A k \in zeros : k <= j
    IN  IF zeros = {} THEN [bits |-> [j \in DOMAIN b |-> 0], carry |-> 1]
        ELSE [bits |-> [j \in DOMAIN b |-> IF j < z THEN b[j]
                                           ELSE IF j = z THEN 1 ELSE 0],
              carry |-> 0]

\* round to DOUBLE_MANT_DIG significant bits, to nearest, ties to even
RoundDouble(x) ==
    LET ones == {j \in 1..FRAC_BITS : x.fr[j] = 1}
        first == IF ones = {} THEN 0 ELSE CHOOSE j \in ones : \A k \in ones : j <= k
        \* the last fraction bit kept
        keep == IF x.ip > 0 THEN DOUBLE_MANT_DIG - BitLen(x.ip)
                ELSE first + DOUBLE_MANT_DIG - 1
        lsb == IF keep = 0 THEN x.ip % 2 ELSE x.fr[keep]
        rest == x.sticky \/ \E j \in (keep + 2)..FRAC_BITS : x.fr[j] = 1
        up == x.fr[keep + 1] = 1 /\ (rest \/ lsb = 1)
        kept == SubSeq(x.fr, 1, keep)
        inc == IF up THEN IncBits(kept) ELSE [bits |-> kept, carry |-> 0]
    IN  IF (x.ip = 0 /\ ones = {}) \/ keep >= FRAC_BITS
        THEN [ip |-> x.ip, fr |-> x.fr, sticky |-> FALSE]
        ELSE [ip |-> x.ip + inc.carry,
              fr |-> inc.bits \o [j \in 1..(FRAC_BITS - keep) |-> 0],
              sticky |-> FALSE]

\* the double nearest to p/q (what a literal such as 0.20 denotes)
Double(p, q) ==
    RoundDouble([ip |-> p \div q,
                 fr |-> Expand(p % q, q, FRAC_BITS),
                 sticky |-> ExpandRem(p % q, q, FRAC_BITS) # 0])

\* 1 - x for a double 0 <= x <= 1
OneMinus(x) ==
    LET zeros == [j \in 1..FRAC_BITS |-> 0]
    IN  IF x.ip >= 1 THEN [ip |-> 0, fr |-> zeros, sticky |-> FALSE]
        ELSE IF x.fr = zeros THEN [ip |-> 1, fr |-> zeros, sticky |-> FALSE]
        ELSE RoundDouble([ip |-> 0,
                          fr |-> IncBits([j \in 1..FRAC_BITS |-> 1 - x.fr[j]]).bits,
                          sticky |-> FALSE])

\* x + y, exact (carry look-ahead over the fraction bits)
AddFixed(x, y) ==
    LET Carry(i) == \E j \in (i + 1)..FRAC_BITS :
                        /\ x.fr[j] = 1 /\ y.fr[j] = 1
                        /\ \A k \in (i + 1)..(j - 1) : x.fr[k] + y.fr[k] = 1
    IN  [ip |-> x.ip + y.ip + (IF Carry(0) THEN 1 ELSE 0),
         fr |-> [i \in 1..FRAC_BITS |->
                    (x.fr[i] + y.fr[i] + (IF Carry(i) THEN 1 ELSE 0)) % 2],
         sticky |-> FALSE]

\* 2 * x, exact
Doubled(x) ==
    [ip |-> 2 * x.ip + x.fr[1],
     fr |-> [i \in 1..FRAC_BITS |-> IF i < FRAC_BITS THEN x.fr[i + 1] ELSE 0],
     sticky |-> FALSE]

\* n * x, exact, by the binary digits of n
RECURSIVE TimesExact(_, _)
TimesExact(n, x) ==
    IF n = 0 THEN [ip |-> 0, fr |-> [i \in 1..FRAC_BITS |-> 0], sticky |-> FALSE]
    ELSE LET half == Doubled(TimesExact(n \div 2, x))
         IN  IF n % 2 = 1 THEN AddFixed(half, x) ELSE half

\* n * x for an int n >= 0 and a double x: one rounding
TimesInt(n, x) == RoundDouble(TimesExact(n, x))

\* int(x), x >= 0
IntOf(x) == x.ip

----------------------------------------------------------------------------
(* engine/backtest.py, split_holdout.  It reads nothing of a market but
   created_at; the id tells the markets of a list apart. *)

SplitMarket(i, c) == [id |-> i, created_at |-> c]

\* sorted(markets, key=lambda m: m.created_at): stable, oldest first
SortByCreatedAt(ms) ==
    LET Ahead(i) == {j \in DOMAIN ms :
                        \/ ms[j].created_at < ms[i].created_at
                        \/ ms[j].created_at = ms[i].created_at /\ j < i}
        place == [i \in DOMAIN ms |-> Cardinality(Ahead(i)) + 1]
    IN  [k \in DOMAIN ms |-> ms[CHOOSE i \in DOMAIN ms : place[i] = k]]

\* line 42; f is the double handed in
SplitIdx(n, f) == IntOf(TimesInt(n, OneMinus(f)))

split_holdout_Unsorted(ms, f) ==
    IF ms = <<>> THEN [train |-> <<>>, holdout |-> <<>>]
    ELSE LET split_idx == SplitIdx(Len(ms), f)
         IN  [train |-> SubSeq(ms, 1, split_idx),
              holdout |-> SubSeq(ms, split_idx + 1, Len(ms))]

split_holdout(ms, f) ==
    IF ms = <<>> THEN [train |-> <<>>, holdout |-> <<>>]
    ELSE LET sorted_markets == SortByCreatedAt(ms)
             split_idx == SplitIdx(Len(sorted_markets), f)
         IN  [train |-> SubSeq(sorted_markets, 1, split_idx),
              holdout |-> SubSeq(sorted_markets, split_idx + 1, Len(sorted_markets))]

----------------------------------------------------------------------------
(* engine/combinator.py *)

MAX_TIER1_COMBO_SIZE == 3
MAX_TIER2_COMBO_SIZE == 3
MAX_TIER3_SEEDS == 3
TIER1_TOP_PER_CATEGORY == 5
TIER2_TOP_OVERALL == 10
PRUNE_KEEP == 50

Min(a, b) == IF a < b THEN a ELSE b

\* itertools.combinations(s, r), in its order
RECURSIVE Combinations(_, _)
Combinations(s, r) ==
    IF r = 0 THEN << <<>> >>
    ELSE IF Len(s) < r THEN <<>>
    ELSE LET with == Combinations(Tail(s), r - 1)
         IN  [i \in 1..Len(with) |-> <<Head(s)>> \o with[i]]
                \o Combinations(Tail(s), r)

\* the combinations of every size from lo to hi, smaller sizes first
RECURSIVE SizesFrom(_, _, _)
SizesFrom(s, lo, hi) ==
    IF lo > hi THEN <<>> ELSE Combinations(s, lo) \o SizesFrom(s, lo + 1, hi)

\* mutant: range(0, ...) instead of range(1, ...)
_sized_combos_FromZero(method_ids, max_size) ==
    SizesFrom(method_ids, 0, Min(max_size, Len(method_ids)))

_sized_combos(method_ids, max_size) ==
    SizesFrom(method_ids, 1, Min(max_size, Len(method_ids)))

get_methods_by_category(cat) == {m \in DOMAIN METHODS : METHODS[m].category = cat}

\* tier1 lines 41-48: the combos of one category
Tier1Combos(cat) ==
    LET Reg(m) == m \in get_methods_by_category(cat)
        available == SelectSeq(CATEGORIES[cat], Reg)
    IN  IF available = <<>> THEN <<>>
        ELSE _sized_combos(available, MAX_TIER1_COMBO_SIZE)

\* mutant: the results are cut without being sorted
SortByFitness_Unsorted(s) == s

\* list.sort(key=fitness_score, reverse=True): stable, best first
SortByFitness(s) ==
    LET Ahead(i) == {j \in DOMAIN s :
                        \/ RatLess(s[i].fitness_score, s[j].fitness_score)
                        \/ s[j].fitness_score = s[i].fitness_score /\ j < i}
        place == [i \in DOMAIN s |-> Cardinality(Ahead(i)) + 1]
    IN  [k \in DOMAIN s |-> s[CHOOSE i \in DOMAIN s : place[i] = k]]

Take(s, n) == SubSeq(s, 1, Min(n, Len(s)))

RECURSIVE Flatten(_)
Flatten(ss) == IF ss = <<>> THEN <<>> ELSE Head(ss) \o Flatten(Tail(ss))

\* tier2 lines 78-81: the method lists of all finalists, category by category
Finalists(cat_results) ==
    LET all == Flatten(cat_results)
    IN  [i \in DOMAIN all |-> all[i].methods_used]

\* mutant: the merged list is used as it is, repeated ids included
Unique_KeepAll(s, seen) == s

\* tier2 lines 94-99: first occurrences, in order
RECURSIVE Unique(_, _)
Unique(s, seen) ==
    IF s = <<>> THEN <<>>
    ELSE IF Head(s) \in seen THEN Unique(Tail(s), seen)
         ELSE <<Head(s)>> \o Unique(Tail(s), seen \cup {Head(s)})

\* tier2 lines 88-100: the merged lists of every 2 or 3 finalists
Tier2Combos(finalists) ==
    LET n == Len(finalists)
        subsets == SizesFrom([i \in 1..n |-> i], 2, Min(MAX_TIER2_COMBO_SIZE, n))
    IN  [k \in DOMAIN subsets |->
            Unique(Flatten([j \in DOMAIN subsets[k] |-> finalists[subsets[k][j]]]), {})]

\* tier3 line 143
Unused(all_method_ids, cur) ==
    LET Free(m) == m \notin Range(cur)
    IN  SelectSeq(all_method_ids, Free)

\* tier3 line 161
Without(cur, method) ==
    LET Other(m) == m # method
    IN  SelectSeq(cur, Other)

Seeds == Min(Len(tier2_top), MAX_TIER3_SEEDS)

RunIdle ==
    /\ usable_resolved = <<>>
    /\ holdout_fraction = RatInt(0)
    /\ train_markets = <<>>
    /\ holdout_markets = <<>>
    /\ holdout_none = FALSE

OptIdle ==
    /\ markets = <<>>
    /\ work = <<>>
    /\ tier_results = <<>>
    /\ cat_i = 0
    /\ category_results = <<>>
    /\ tier2_top = <<>>
    /\ seed_i = 0
    /\ current = <<>>
    /\ current_fitness = RatInt(0)
    /\ phase = "idle"
    /\ refined = <<>>
    /\ persisted = FALSE
    /\ evaluated = {}

----------------------------------------------------------------------------
(* backtest_combo as a process.  The markets list is an input: the loop    *)
(* draws each market as it reads it, and the list ends after at most       *)
(* MaxMarkets of them.                                                     *)

InjectiveSeqs(S, n) ==
    {q \in UNION {[1..k -> S] : k \in 0..n} :
        \A i, j \in DOMAIN q : i # j => q[i] # q[j]}

Acc == Accumulators(correct, total_markets, edge_sum, false_positives,
                    high_confidence_preds)

\* backtest_combo not running
BacktestIdle ==
    /\ combo = <<>>
    /\ cutoff_fraction = 7
    /\ market = NoMarket
    /\ mi = 0
    /\ correct = 0
    /\ total_markets = 0
    /\ edge_sum = RatInt(0)
    /\ false_positives = 0
    /\ high_confidence_preds = 0
    /\ cr = NoResult
    /\ snap = Accumulators(0, 0, RatInt(0), 0, 0)

InitBacktest ==
    /\ combo \in InjectiveSeqs(Range(get_all_method_ids) \cup {UnknownId}, MaxComboLen)
    /\ cutoff_fraction \in CutoffFractions
    /\ market = NoMarket
    /\ pc = "start"
    /\ mi = 0
    /\ correct = 0
    /\ total_markets = 0
    /\ edge_sum = RatInt(0)
    /\ false_positives = 0
    /\ high_confidence_preds = 0
    /\ cr = NoResult
    /\ chain = NoChain
    /\ signal_confidence = NoAggregate
    /\ snap = Accumulators(0, 0, RatInt(0), 0, 0)
    /\ DbEmpty
    /\ OptIdle
    /\ RunIdle

\* line 61: method_fns = [(mid, get_method(mid)) for mid in combo]
LookupMethods ==
    /\ pc = "start"
    /\ pc' = IF LookupFails(combo) THEN "KeyError" ELSE "loop"
    /\ UNCHANGED <<combo, market, cutoff_fraction, mi, correct, total_markets,
                   edge_sum, false_positives, high_confidence_preds, cr, chain, signal_confidence,
                   snap, dbVars, optVars, runVars>>

\* a market one of the "continue" tests of lines 65-80 turns away
SkipMarket ==
    /\ pc = "loop"
    /\ mi < MaxMarkets
    /\ \E mkt \in MarketKinds :
         \E it \in {MarketIteration(Acc, combo, mkt, WALLETS, cutoff_fraction)} :
            /\ it.status \in {"unresolved", "few_bets", "lifespan", "few_visible"}
            /\ market' = mkt
            /\ chain' = it.chain
    /\ mi' = mi + 1
    /\ snap' = Acc
    /\ UNCHANGED <<combo, cutoff_fraction, pc, correct, total_markets, edge_sum,
                   false_positives, high_confidence_preds, cr, signal_confidence,
                   dbVars, optVars, runVars>>

\* a market whose chain left no result (line 102), or let an exception out
UnscoredMarket ==
    /\ pc = "loop"
    /\ mi < MaxMarkets
    /\ \E mkt \in MarketKinds :
         \E it \in {MarketIteration(Acc, combo, mkt, WALLETS, cutoff_fraction)} :
            /\ it.status \in {"no_results", "raised"}
            /\ market' = mkt
            /\ chain' = it.chain
            /\ pc' = IF it.status = "raised" THEN "raised" ELSE "loop"
    /\ mi' = mi + 1
    /\ snap' = Acc
    /\ UNCHANGED <<combo, cutoff_fraction, correct, total_markets, edge_sum,
                   false_positives, high_confidence_preds, cr, signal_confidence,
                   dbVars, optVars, runVars>>

\* a market that is scored (lines 105-123)
ScoreMarket ==
    /\ pc = "loop"
    /\ mi < MaxMarkets
    /\ \E mkt \in MarketKinds :
         \E it \in {MarketIteration(Acc, combo, mkt, WALLETS, cutoff_fraction)} :
            /\ it.status = "scored"
            /\ market' = mkt
            /\ chain' = it.chain
            /\ correct' = it.acc.correct
            /\ total_markets' = it.acc.total_markets
            /\ edge_sum' = it.acc.edge_sum
            /\ false_positives' = it.acc.false_positives
            /\ high_confidence_preds' = it.acc.high_confidence_preds
            /\ signal_confidence' = _aggregate_signals(it.chain.results)
    /\ mi' = mi + 1
    /\ snap' = Acc
    /\ UNCHANGED <<combo, cutoff_fraction, pc, cr, dbVars, optVars, runVars>>

\* lines 125-139
ReturnResult ==
    /\ pc = "loop"
    /\ cr' = ComboResults(combo, Acc)
    /\ pc' = "done"
    /\ UNCHANGED <<combo, market, cutoff_fraction, mi, correct, total_markets,
                   edge_sum, false_positives, high_confidence_preds, chain, signal_confidence,
                   snap, dbVars, optVars, runVars>>

NextBacktest == LookupMethods \/ SkipMarket \/ UnscoredMarket \/ ScoreMarket \/ ReturnResult

SpecBacktest == InitBacktest /\ [][NextBacktest]_vars

----------------------------------------------------------------------------
(* The table under any sequence of upserts, commits and prunes, as         *)
(* successive runs produce them.                                           *)

StoreCombos == {<<"S1">>, <<"S1", "D5">>, <<"D5", "S1">>}
StoreAccuracies == {RatInt(0), Rat(1, 2), RatInt(1)}

\* a ComboResults as some backtest of combo c could return it
SomeResult(c, a) ==
    ComboResults(c, Accumulators(a.n, a.d, RatInt(0), 0, 0))

InitStore ==
    /\ BacktestIdle
    /\ chain = NoChain
    /\ signal_confidence = NoAggregate
    /\ pc = "store"
    /\ DbEmpty
    /\ OptIdle
    /\ RunIdle

Upsert ==
    /\ pc = "store"
    /\ db_seq < MaxRowId
    /\ \E c \in StoreCombos, a \in StoreAccuracies :
         \E r \in {SomeResult(c, a)} :
            \E out \in {insert_method_result(db_rows, db_seq, r)} :
                /\ db_rows' = out.rows
                /\ db_seq' = out.seq
                /\ upserted' = upserted \cup
                                 {[combo_id |-> r.combo_id, fitness_score |-> r.fitness_score]}
                /\ last_upsert' = [made |-> TRUE, r |-> r, met |-> RowOf(db_rows, r)]
    /\ UNCHANGED <<btVars, optVars, runVars, db_committed>>

\* flush_method_results: conn.commit()
Flush ==
    /\ pc = "store"
    /\ db_committed # db_rows
    /\ db_committed' = db_rows
    /\ last_upsert' = NoUpsert
    /\ UNCHANGED <<btVars, optVars, runVars, db_rows, db_seq, upserted>>

Prune ==
    /\ pc = "store"
    /\ \E keep \in 1..2 :
         \E kept \in prune_method_results(db_rows, keep) :
            /\ kept # db_rows
            /\ db_rows' = kept
            /\ db_committed' = kept
            /\ upserted' = {u \in upserted : \E x \in kept : x.combo_id = u.combo_id}
    /\ last_upsert' = NoUpsert
    /\ UNCHANGED <<btVars, optVars, runVars, db_seq>>

NextStore == Upsert \/ Flush \/ Prune

SpecStore == InitStore /\ [][NextStore]_vars

----------------------------------------------------------------------------
(* The aggregation on its own: any list of up to MaxResults MethodResults  *)
(* within the contract (signal in [-1,1], confidence in [0,1]).            *)

Signals == {RatInt(0 - 1), Rat(0 - 1, 2), RatInt(0), Rat(1, 2), RatInt(1)}
Confidences == {RatInt(0), Rat(1, 5), Rat(1, 2), RatInt(1)}

ResultLists ==
    UNION {[1..k -> {MethodResult(sg, cf, <<>>) : sg \in Signals, cf \in Confidences}] :
           k \in 0..MaxResults}

InitAggregate ==
    /\ BacktestIdle
    /\ chain \in {[NoChain EXCEPT !.results = rs] : rs \in ResultLists}
    /\ signal_confidence = NoAggregate
    /\ pc = "results"
    /\ DbEmpty
    /\ OptIdle
    /\ RunIdle

\* backtest.py line 105
AggregateSignals ==
    /\ pc = "results"
    /\ signal_confidence' = _aggregate_signals(chain.results)
    /\ pc' = "aggregated"
    /\ UNCHANGED <<combo, market, cutoff_fraction, mi, correct, total_markets,
                   edge_sum, false_positives, high_confidence_preds, cr, chain, snap,
                   dbVars, optVars, runVars>>

\* report.py lines 39-57
ReportAggregate ==
    /\ pc = "results"
    /\ signal_confidence' = RunBestComboAggregate(chain.results)
    /\ pc' = "reported"
    /\ UNCHANGED <<combo, market, cutoff_fraction, mi, correct, total_markets,
                   edge_sum, false_positives, high_confidence_preds, cr, chain, snap,
                   dbVars, optVars, runVars>>

NextAggregate == AggregateSignals \/ ReportAggregate

SpecAggregate == InitAggregate /\ [][NextAggregate]_vars

----------------------------------------------------------------------------
(* calculate_fitness on its own (engine/fitness.py): for fixed accuracy,
   edge and false-positive rate, the results of complexity 0, 1, 2, ... are
   scored one after the other; cr is the result about to be scored,
   tier_results the scored ones. *)

Rates == {RatInt(0), Rat(1, 2), Rat(6, 10), RatInt(1)}

InitFitness ==
    /\ cr \in {[NoResult EXCEPT !.accuracy = a, !.edge_vs_market = e,
                                !.false_positive_rate = f] :
                  a \in Rates, e \in Rates, f \in Rates}
    /\ tier_results = <<>>
    /\ pc = "fitness"
    /\ combo = <<>>
    /\ cutoff_fraction = BACKTEST_CUTOFF_FRACTION
    /\ market = NoMarket
    /\ mi = 0
    /\ correct = 0
    /\ total_markets = 0
    /\ edge_sum = RatInt(0)
    /\ false_positives = 0
    /\ high_confidence_preds = 0
    /\ snap = Accumulators(0, 0, RatInt(0), 0, 0)
    /\ chain = NoChain
    /\ signal_confidence = NoAggregate
    /\ DbEmpty
    /\ RunIdle
    /\ markets = <<>>
    /\ work = <<>>
    /\ cat_i = 0
    /\ category_results = <<>>
    /\ tier2_top = <<>>
    /\ seed_i = 0
    /\ current = <<>>
    /\ current_fitness = RatInt(0)
    /\ phase = "idle"
    /\ refined = <<>>
    /\ persisted = FALSE
    /\ evaluated = {}

\* cr.fitness_score = calculate_fitness(cr), then the same rates at the next
\* complexity
CalculateFitness ==
    /\ pc = "fitness"
    /\ cr.complexity <= MaxComplexity
    /\ tier_results' = Append(tier_results,
                              [cr EXCEPT !.fitness_score = calculate_fitness(cr)])
    /\ cr' = [cr EXCEPT !.complexity = @ + 1]
    /\ UNCHANGED <<pc, combo, cutoff_fraction, market, mi, correct, total_markets,
                   edge_sum, false_positives, high_confidence_preds, snap, chain,
                   signal_confidence, dbVars, runVars, markets, work, cat_i,
                   category_results, tier2_top, seed_i, current, current_fitness, phase,
                   refined, persisted, evaluated>>

NextFitness == CalculateFitness

SpecFitness == InitFitness /\ [][NextFitness]_vars

----------------------------------------------------------------------------
(* _run_best_combo as a process (engine/report.py lines 19-57), on one of
   the markets generate_report hands it: not resolved, five bets or more,
   all its bets, the wallets of those bets.  One step is one turn of
   "for method_id in combo_methods". *)

ActiveKinds == {Market(FALSE, NULL, 0, 10, b) : b \in {BetsHigh, BetsLow, BetsMixed, BetsLate}}

\* the turn of the loop the chain is in
ReportTurn == Len(chain.called) + Len(chain.lookup_failed) + 1

ReportWallets == MarketWallets(market.bets, WALLETS)

InitReport ==
    /\ combo \in InjectiveSeqs(Range(get_all_method_ids) \cup {UnknownId}, MaxComboLen)
    /\ market \in ActiveKinds
    /\ chain = [NoChain EXCEPT !.current_bets = market.bets]
    /\ signal_confidence = NoAggregate
    /\ pc = "report_chain"
    /\ cutoff_fraction = 10
    /\ mi = 0
    /\ correct = 0
    /\ total_markets = 0
    /\ edge_sum = RatInt(0)
    /\ false_positives = 0
    /\ high_confidence_preds = 0
    /\ cr = NoResult
    /\ snap = Accumulators(0, 0, RatInt(0), 0, 0)
    /\ DbEmpty
    /\ OptIdle
    /\ RunIdle

\* what a step of the report's chain leaves alone
ReportFrame == <<combo, market, cutoff_fraction, mi, correct, total_markets, edge_sum,
                 false_positives, high_confidence_preds, cr, snap, dbVars, optVars,
                 runVars>>

\* lines 31-35: the detector is found and returns
ReportDetectorReturns ==
    /\ pc = "report_chain"
    /\ ReportTurn <= Len(combo)
    /\ combo[ReportTurn] \in DOMAIN METHODS
    /\ Detect(METHODS[combo[ReportTurn]].fn, market, chain.current_bets, ReportWallets).ok
    /\ chain' = ChainStep(chain, combo[ReportTurn], market, ReportWallets)
    /\ UNCHANGED <<pc, signal_confidence, ReportFrame>>

\* lines 32, 36-37: the detector is found and raises
ReportDetectorRaises ==
    /\ pc = "report_chain"
    /\ ReportTurn <= Len(combo)
    /\ combo[ReportTurn] \in DOMAIN METHODS
    /\ ~Detect(METHODS[combo[ReportTurn]].fn, market, chain.current_bets, ReportWallets).ok
    /\ chain' = ChainStep(chain, combo[ReportTurn], market, ReportWallets)
    /\ UNCHANGED <<pc, signal_confidence, ReportFrame>>

\* lines 31, 36-37: get_method raises KeyError inside the try, the handler
\* of the detectors catches it
ReportLookupCaught ==
    /\ pc = "report_chain"
    /\ ReportTurn <= Len(combo)
    /\ combo[ReportTurn] \notin DOMAIN METHODS
    /\ chain' = [chain EXCEPT !.lookup_failed = Append(@, combo[ReportTurn])]
    /\ UNCHANGED <<pc, signal_confidence, ReportFrame>>

\* lines 39-57
ReportReturn ==
    /\ pc = "report_chain"
    /\ ReportTurn > Len(combo)
    /\ signal_confidence' = RunBestComboAggregate(chain.results)
    /\ pc' = "reported"
    /\ UNCHANGED <<chain, ReportFrame>>

NextReport ==
    \/ ReportDetectorReturns
    \/ ReportDetectorRaises
    \/ ReportLookupCaught
    \/ ReportReturn

SpecReport == InitReport /\ [][NextReport]_vars

----------------------------------------------------------------------------
(* split_holdout on its own: any list of up to MaxSplit markets, in any
   order and with any ties of created_at, and any fraction in tenths. *)

CreatedAts == {1, 2, 3}

MarketLists(n) ==
    UNION {{[i \in 1..k |-> SplitMarket(i, c[i])] : c \in [1..k -> CreatedAts]} : k \in 0..n}

HoldoutFractions == {Rat(k, 10) : k \in 0..10}

\* the parts of a state that split_holdout and run_analysis leave alone
RunFrame == <<combo, market, cutoff_fraction, mi, correct, total_markets, edge_sum,
              false_positives, high_confidence_preds, cr, chain, signal_confidence,
              snap, dbVars, optVars>>

InitSplit ==
    /\ usable_resolved \in MarketLists(MaxSplit)
    /\ holdout_fraction \in HoldoutFractions
    /\ train_markets = <<>>
    /\ holdout_markets = <<>>
    /\ holdout_none = FALSE
    /\ pc = "split"
    /\ BacktestIdle
    /\ chain = NoChain
    /\ signal_confidence = NoAggregate
    /\ DbEmpty
    /\ OptIdle

SplitHoldout ==
    /\ pc = "split"
    /\ \E s \in {split_holdout(usable_resolved,
                               Double(holdout_fraction.n, holdout_fraction.d))} :
          /\ train_markets' = s.train
          /\ holdout_markets' = s.holdout
    /\ pc' = "split_done"
    /\ UNCHANGED <<usable_resolved, holdout_fraction, holdout_none, RunFrame>>

NextSplit == SplitHoldout

SpecSplit == InitSplit /\ [][NextSplit]_vars

----------------------------------------------------------------------------
(* run_analysis from the split to the optimization (main.py lines 253-275;
   dashboard.py lines 225-246 is the same code).  The markets are those the
   database returned with enough bets; the run reads their number and
   created_at. *)

HOLDOUT_FRACTION == Rat(20, 100)
MIN_HOLDOUT_MARKETS == 5
MIN_USABLE_RESOLVED == 10

\* def run_full_optimization(conn, markets, bets_by_market, wallets)
run_full_optimization_params == <<"conn", "markets", "bets_by_market", "wallets">>

\* run_full_optimization(conn, train_markets, train_bets, wallets,
\*                       holdout_markets, holdout_bets)
OptimizationCallArgs ==
    <<"conn", "train_markets", "train_bets", "wallets", "holdout_markets", "holdout_bets">>

\* a call of positional arguments to a function whose parameters have no
\* defaults and no *args binds iff there is one argument per parameter
Binds(args, params) == Len(args) = Len(params)

\* the lists of n markets the runs start from: loaded oldest first, newest
\* first, or all created at once
UsableLists ==
    UNION {{[i \in 1..n |-> SplitMarket(i, i)],
            [i \in 1..n |-> SplitMarket(i, n + 1 - i)],
            [i \in 1..n |-> SplitMarket(i, 1)]} : n \in 0..MaxUsable}

InitAnalysis ==
    /\ usable_resolved \in UsableLists
    /\ holdout_fraction = HOLDOUT_FRACTION
    /\ train_markets = <<>>
    /\ holdout_markets = <<>>
    /\ holdout_none = FALSE
    /\ pc = "analysis"
    /\ BacktestIdle
    /\ chain = NoChain
    /\ signal_confidence = NoAggregate
    /\ DbEmpty
    /\ OptIdle

\* main.py lines 260-264
AnalysisSplit ==
    /\ pc = "analysis"
    /\ \E s \in {split_holdout(usable_resolved,
                               Double(holdout_fraction.n, holdout_fraction.d))} :
          /\ train_markets' = s.train
          /\ holdout_markets' = s.holdout
    /\ pc' = "holdout_check"
    /\ UNCHANGED <<usable_resolved, holdout_fraction, holdout_none, RunFrame>>

\* main.py lines 266-268: the holdout is too small
DropHoldout ==
    /\ pc = "holdout_check"
    /\ Len(holdout_markets) < MIN_HOLDOUT_MARKETS
    /\ holdout_markets' = <<>>
    /\ holdout_none' = TRUE
    /\ pc' = "optimize"
    /\ UNCHANGED <<usable_resolved, holdout_fraction, train_markets, RunFrame>>

\* main.py line 266, the test fails
KeepHoldout ==
    /\ pc = "holdout_check"
    /\ Len(holdout_markets) >= MIN_HOLDOUT_MARKETS
    /\ pc' = "optimize"
    /\ UNCHANGED <<runVars, RunFrame>>

\* main.py lines 270-272: the call of run_full_optimization
CallOptimization ==
    /\ pc = "optimize"
    /\ Len(usable_resolved) >= MIN_USABLE_RESOLVED
    /\ pc' = IF Binds(OptimizationCallArgs, run_full_optimization_params)
             THEN "optimized" ELSE "TypeError"
    /\ UNCHANGED <<runVars, RunFrame>>

\* main.py lines 273-275
SkipOptimization ==
    /\ pc = "optimize"
    /\ Len(usable_resolved) < MIN_USABLE_RESOLVED
    /\ pc' = "report"
    /\ UNCHANGED <<runVars, RunFrame>>

NextAnalysis ==
    \/ AnalysisSplit
    \/ DropHoldout
    \/ KeepHoldout
    \/ CallOptimization
    \/ SkipOptimization

SpecAnalysis == InitAnalysis /\ [][NextAnalysis]_vars

----------------------------------------------------------------------------
(* run_full_optimization as a process (engine/combinator.py lines 180-208).
   One step is one pass of a loop body of a tier: a backtest_combo call and
   what the tier does with its result.  combo and cr hold the latest call
   and its ComboResults, persisted tells whether that result was handed to
   insert_method_result, evaluated collects every result computed so far.
   db_committed is what the database file holds: an interrupted process
   loses the rows of the open transaction. *)

OptDatasets ==
    { <<YesHigh, NoLow, YesMixed>>,
      <<NoHigh, NoLow>>,
      <<Unresolved, FourBets>> }

InitOptimizer ==
    /\ markets \in OptDatasets
    /\ pc = "tier1"
    /\ cat_i = 1
    /\ work = Tier1Combos(CategoryOrder[1])
    /\ tier_results = <<>>
    /\ category_results = <<>>
    /\ tier2_top = <<>>
    /\ seed_i = 0
    /\ current = <<>>
    /\ current_fitness = RatInt(0)
    /\ phase = "idle"
    /\ refined = <<>>
    /\ persisted = FALSE
    /\ evaluated = {}
    /\ combo = <<>>
    /\ cr = NoResult
    /\ market = NoMarket
    /\ cutoff_fraction = BACKTEST_CUTOFF_FRACTION
    /\ mi = 0
    /\ correct = 0
    /\ total_markets = 0
    /\ edge_sum = RatInt(0)
    /\ false_positives = 0
    /\ high_confidence_preds = 0
    /\ chain = NoChain
    /\ signal_confidence = NoAggregate
    /\ snap = Accumulators(0, 0, RatInt(0), 0, 0)
    /\ DbEmpty
    /\ RunIdle

Seen(r) == evaluated \cup {[combo_id |-> r.combo_id, fitness_score |-> r.fitness_score]}

\* the variables no step of the optimizer touches
optFrame == <<markets, market, cutoff_fraction, mi, correct, total_markets, edge_sum,
              false_positives, high_confidence_preds, chain, signal_confidence, snap,
              upserted, last_upsert, runVars>>

\* tier1 lines 53-56
Tier1Evaluate ==
    /\ pc = "tier1"
    /\ work # <<>>
    /\ \E r \in {backtest_combo(Head(work), markets, WALLETS)} :
       \E db \in {insert_method_result(db_rows, db_seq, r)} :
          /\ combo' = Head(work)
          /\ cr' = r
          /\ db_rows' = db.rows
          /\ db_seq' = db.seq
          /\ persisted' = TRUE
          /\ evaluated' = Seen(r)
          /\ tier_results' = Append(tier_results, r)
          /\ work' = Tail(work)
    /\ UNCHANGED <<pc, cat_i, category_results, tier2_top, seed_i, current,
                   current_fitness, phase, refined, db_committed, optFrame>>

\* tier1 lines 58-60, then line 40 for the next category
Tier1NextCategory ==
    /\ pc = "tier1"
    /\ work = <<>>
    /\ cat_i < Len(CategoryOrder)
    /\ category_results' = Append(category_results,
                                  Take(SortByFitness(tier_results), TIER1_TOP_PER_CATEGORY))
    /\ cat_i' = cat_i + 1
    /\ work' = Tier1Combos(CategoryOrder[cat_i + 1])
    /\ tier_results' = <<>>
    /\ UNCHANGED <<pc, combo, cr, tier2_top, seed_i, current, current_fitness, phase,
                   refined, persisted, evaluated, dbVars, optFrame>>

\* tier1 lines 58-66 for the last category, run_full_optimization line 192,
\* tier2 lines 78-100
Tier1Return ==
    /\ pc = "tier1"
    /\ work = <<>>
    /\ cat_i = Len(CategoryOrder)
    /\ \E t1 \in {Append(category_results,
                         Take(SortByFitness(tier_results), TIER1_TOP_PER_CATEGORY))} :
          /\ category_results' = t1
          /\ work' = Tier2Combos(Finalists(t1))
    /\ db_committed' = db_rows
    /\ tier_results' = <<>>
    /\ pc' = "tier2"
    /\ UNCHANGED <<cat_i, combo, cr, tier2_top, seed_i, current, current_fitness, phase,
                   refined, persisted, evaluated, db_rows, db_seq, optFrame>>

\* tier2 lines 106-111
Tier2Evaluate ==
    /\ pc = "tier2"
    /\ work # <<>>
    /\ \E r \in {backtest_combo(Head(work), markets, WALLETS)} :
       \E db \in {insert_method_result(db_rows, db_seq, r)} :
          /\ combo' = Head(work)
          /\ cr' = r
          /\ db_rows' = db.rows
          /\ db_seq' = db.seq
          /\ persisted' = TRUE
          /\ evaluated' = Seen(r)
          /\ tier_results' = Append(tier_results, r)
          /\ work' = Tail(work)
    /\ UNCHANGED <<pc, cat_i, category_results, tier2_top, seed_i, current,
                   current_fitness, phase, refined, db_committed, optFrame>>

\* tier2 lines 113-119, run_full_optimization line 195, tier3 line 132
Tier2Return ==
    /\ pc = "tier2"
    /\ work = <<>>
    /\ tier2_top' = Take(SortByFitness(tier_results), TIER2_TOP_OVERALL)
    /\ db_committed' = db_rows
    /\ pc' = "tier3"
    /\ phase' = "seed"
    /\ seed_i' = 1
    /\ refined' = <<>>
    /\ UNCHANGED <<work, tier_results, cat_i, category_results, combo, cr, current,
                   current_fitness, persisted, evaluated, db_rows, db_seq, optFrame>>

\* mutant: the climb starts from fitness 0 instead of the seed's fitness
Tier3Seed_FromZero ==
    /\ pc = "tier3"
    /\ phase = "seed"
    /\ seed_i <= Seeds
    /\ current' = tier2_top[seed_i].methods_used
    /\ current_fitness' = RatInt(0)
    /\ work' = Unused(get_all_method_ids, tier2_top[seed_i].methods_used)
    /\ phase' = "add"
    /\ UNCHANGED <<pc, tier_results, cat_i, category_results, tier2_top, seed_i, refined,
                   combo, cr, persisted, evaluated, dbVars, optFrame>>

\* tier3 lines 134-143: the next seed and its first scan of additions
Tier3Seed ==
    /\ pc = "tier3"
    /\ phase = "seed"
    /\ seed_i <= Seeds
    /\ current' = tier2_top[seed_i].methods_used
    /\ current_fitness' = tier2_top[seed_i].fitness_score
    /\ work' = Unused(get_all_method_ids, tier2_top[seed_i].methods_used)
    /\ phase' = "add"
    /\ UNCHANGED <<pc, tier_results, cat_i, category_results, tier2_top, seed_i, refined,
                   combo, cr, persisted, evaluated, dbVars, optFrame>>

\* mutant: after an accepted addition the scan goes on where it was
Tier3AcceptAdd_NoRestart ==
    /\ pc = "tier3"
    /\ phase = "add"
    /\ work # <<>>
    /\ \E candidate \in {Append(current, Head(work))} :
       \E r \in {backtest_combo(candidate, markets, WALLETS)} :
       \E db \in {insert_method_result(db_rows, db_seq, r)} :
          /\ RatLess(current_fitness, r.fitness_score)
          /\ combo' = candidate
          /\ cr' = r
          /\ evaluated' = Seen(r)
          /\ current' = candidate
          /\ current_fitness' = r.fitness_score
          /\ db_rows' = db.rows
          /\ db_seq' = db.seq
          /\ persisted' = TRUE
          /\ work' = Tail(work)
    /\ UNCHANGED <<pc, phase, tier_results, cat_i, category_results, tier2_top, seed_i,
                   refined, db_committed, optFrame>>

\* tier3 lines 145-153, the candidate is better: kept and stored, the scan
\* of additions starts again (line 155)
Tier3AcceptAdd ==
    /\ pc = "tier3"
    /\ phase = "add"
    /\ work # <<>>
    /\ \E candidate \in {Append(current, Head(work))} :
       \E r \in {backtest_combo(candidate, markets, WALLETS)} :
       \E db \in {insert_method_result(db_rows, db_seq, r)} :
          /\ RatLess(current_fitness, r.fitness_score)
          /\ combo' = candidate
          /\ cr' = r
          /\ evaluated' = Seen(r)
          /\ current' = candidate
          /\ current_fitness' = r.fitness_score
          /\ db_rows' = db.rows
          /\ db_seq' = db.seq
          /\ persisted' = TRUE
          /\ work' = Unused(get_all_method_ids, candidate)
    /\ UNCHANGED <<pc, phase, tier_results, cat_i, category_results, tier2_top, seed_i,
                   refined, db_committed, optFrame>>

\* tier3 lines 145-147, the candidate is not better: dropped
Tier3RejectAdd ==
    /\ pc = "tier3"
    /\ phase = "add"
    /\ work # <<>>
    /\ \E candidate \in {Append(current, Head(work))} :
       \E r \in {backtest_combo(candidate, markets, WALLETS)} :
          /\ ~RatLess(current_fitness, r.fitness_score)
          /\ combo' = candidate
          /\ cr' = r
          /\ evaluated' = Seen(r)
          /\ persisted' = FALSE
          /\ work' = Tail(work)
    /\ UNCHANGED <<pc, phase, current, current_fitness, tier_results, cat_i,
                   category_results, tier2_top, seed_i, refined, dbVars, optFrame>>

\* mutant: the removals are never tried
Tier3AddsDone_SkipRemovals ==
    /\ pc = "tier3"
    /\ phase = "add"
    /\ work = <<>>
    /\ phase' = "final"
    /\ work' = <<>>
    /\ UNCHANGED <<pc, current, current_fitness, tier_results, cat_i, category_results,
                   tier2_top, seed_i, refined, combo, cr, persisted, evaluated, dbVars,
                   optFrame>>

\* tier3 lines 155-160: no addition helped
Tier3AddsDone ==
    /\ pc = "tier3"
    /\ phase = "add"
    /\ work = <<>>
    /\ IF Len(current) > 1
       THEN phase' = "remove" /\ work' = current
       ELSE phase' = "final" /\ work' = <<>>
    /\ UNCHANGED <<pc, current, current_fitness, tier_results, cat_i, category_results,
                   tier2_top, seed_i, refined, combo, cr, persisted, evaluated, dbVars,
                   optFrame>>

\* tier3 lines 161-169, the candidate is better: kept and stored, the loop
\* goes back to the additions (line 139)
Tier3AcceptRemove ==
    /\ pc = "tier3"
    /\ phase = "remove"
    /\ work # <<>>
    /\ \E candidate \in {Without(current, Head(work))} :
       \E r \in {backtest_combo(candidate, markets, WALLETS)} :
       \E db \in {insert_method_result(db_rows, db_seq, r)} :
          /\ RatLess(current_fitness, r.fitness_score)
          /\ combo' = candidate
          /\ cr' = r
          /\ evaluated' = Seen(r)
          /\ current' = candidate
          /\ current_fitness' = r.fitness_score
          /\ db_rows' = db.rows
          /\ db_seq' = db.seq
          /\ persisted' = TRUE
          /\ work' = Unused(get_all_method_ids, candidate)
    /\ phase' = "add"
    /\ UNCHANGED <<pc, tier_results, cat_i, category_results, tier2_top, seed_i,
                   refined, db_committed, optFrame>>

\* tier3 lines 161-163, the candidate is not better: dropped
Tier3RejectRemove ==
    /\ pc = "tier3"
    /\ phase = "remove"
    /\ work # <<>>
    /\ \E candidate \in {Without(current, Head(work))} :
       \E r \in {backtest_combo(candidate, markets, WALLETS)} :
          /\ ~RatLess(current_fitness, r.fitness_score)
          /\ combo' = candidate
          /\ cr' = r
          /\ evaluated' = Seen(r)
          /\ persisted' = FALSE
          /\ work' = Tail(work)
    /\ UNCHANGED <<pc, phase, current, current_fitness, tier_results, cat_i,
                   category_results, tier2_top, seed_i, refined, dbVars, optFrame>>

\* mutant: "improved" is never cleared, the while loop starts another pass
Tier3RemovesDone_Again ==
    /\ pc = "tier3"
    /\ phase = "remove"
    /\ work = <<>>
    /\ phase' = "add"
    /\ work' = Unused(get_all_method_ids, current)
    /\ UNCHANGED <<pc, current, current_fitness, tier_results, cat_i,
                   category_results, tier2_top, seed_i, refined, combo, cr, persisted,
                   evaluated, dbVars, optFrame>>

\* tier3 line 139: no removal helped either
Tier3RemovesDone ==
    /\ pc = "tier3"
    /\ phase = "remove"
    /\ work = <<>>
    /\ phase' = "final"
    /\ UNCHANGED <<pc, work, current, current_fitness, tier_results, cat_i,
                   category_results, tier2_top, seed_i, refined, combo, cr, persisted,
                   evaluated, dbVars, optFrame>>

\* tier3 lines 171-173
Tier3Final ==
    /\ pc = "tier3"
    /\ phase = "final"
    /\ \E final \in {backtest_combo(current, markets, WALLETS)} :
       \E db \in {insert_method_result(db_rows, db_seq, final)} :
          /\ combo' = current
          /\ cr' = final
          /\ evaluated' = Seen(final)
          /\ db_rows' = db.rows
          /\ db_seq' = db.seq
          /\ persisted' = TRUE
          /\ refined' = Append(refined, final)
    /\ seed_i' = seed_i + 1
    /\ phase' = "seed"
    /\ UNCHANGED <<pc, work, current, current_fitness, tier_results, cat_i,
                   category_results, tier2_top, db_committed, optFrame>>

\* tier3 lines 176-177, run_full_optimization line 198
Tier3Return ==
    /\ pc = "tier3"
    /\ phase = "seed"
    /\ seed_i > Seeds
    /\ refined' = SortByFitness(refined)
    /\ db_committed' = db_rows
    /\ pc' = "prune"
    /\ phase' = "idle"
    /\ UNCHANGED <<work, current, current_fitness, tier_results, cat_i, category_results,
                   tier2_top, seed_i, combo, cr, persisted, evaluated, db_rows, db_seq,
                   optFrame>>

\* run_full_optimization lines 201-208
PruneResults ==
    /\ pc = "prune"
    /\ \E kept \in prune_method_results(db_rows, PRUNE_KEEP) :
          /\ db_rows' = kept
          /\ db_committed' = kept
    /\ pc' = "returned"
    /\ UNCHANGED <<work, current, current_fitness, tier_results, cat_i, category_results,
                   tier2_top, seed_i, phase, refined, combo, cr, persisted, evaluated,
                   db_seq, optFrame>>

\* the process is stopped (KeyboardInterrupt, kill, crash) before it is done:
\* the connection goes away with its open transaction (data/db.py lines
\* 465-487: insert_method_result leaves the commit to flush_method_results)
Interrupt ==
    /\ pc \in {"tier1", "tier2", "tier3", "prune"}
    /\ db_rows' = db_committed
    /\ pc' = "interrupted"
    /\ UNCHANGED <<work, current, current_fitness, tier_results, cat_i, category_results,
                   tier2_top, seed_i, phase, refined, combo, cr, persisted, evaluated,
                   db_committed, db_seq, optFrame>>

NextOptimizer ==
    \/ Tier1Evaluate
    \/ Tier1NextCategory
    \/ Tier1Return
    \/ Tier2Evaluate
    \/ Tier2Return
    \/ Tier3Seed
    \/ Tier3AcceptAdd
    \/ Tier3RejectAdd
    \/ Tier3AddsDone
    \/ Tier3AcceptRemove
    \/ Tier3RejectRemove
    \/ Tier3RemovesDone
    \/ Tier3Final
    \/ Tier3Return
    \/ PruneResults
    \/ Interrupt

SpecOptimizer == InitOptimizer /\ [][NextOptimizer]_vars

----------------------------------------------------------------------------
(* tier3 on its own (engine/combinator.py lines 122-177), called with one
   seed: the ComboResults backtest_combo gives for some combo of one or two
   registered methods on the markets of the call. *)

Tier3SeedCombos == InjectiveSeqs(Range(get_all_method_ids), 2) \ {<<>>}

InitTier3 ==
    /\ markets \in OptDatasets
    /\ tier2_top \in {<<backtest_combo(c, markets, WALLETS)>> : c \in Tier3SeedCombos}
    /\ pc = "tier3"
    /\ phase = "seed"
    /\ seed_i = 1
    /\ refined = <<>>
    /\ work = <<>>
    /\ tier_results = <<>>
    /\ cat_i = 0
    /\ category_results = <<>>
    /\ current = <<>>
    /\ current_fitness = RatInt(0)
    /\ persisted = FALSE
    /\ evaluated = {}
    /\ BacktestIdle
    /\ chain = NoChain
    /\ signal_confidence = NoAggregate
    /\ DbEmpty
    /\ RunIdle

NextTier3 ==
    \/ Tier3Seed
    \/ Tier3AcceptAdd
    \/ Tier3RejectAdd
    \/ Tier3AddsDone
    \/ Tier3AcceptRemove
    \/ Tier3RejectRemove
    \/ Tier3RemovesDone
    \/ Tier3Final
    \/ Tier3Return

SpecTier3 == InitTier3 /\ [][NextTier3]_vars

----------------------------------------------------------------------------
(* tier3 left to run on the list Tier 2 hands it: none to five merged
   combos, best first.  The interpreter goes from one statement to the next
   for as long as there is one. *)

SeedPool ==
    << <<"S1", "D5">>, <<"S4", "D9">>, <<"S3", "D7">>, <<"S1", "S4", "D8">>,
       <<"S3", "S4", "D5", "D9">> >>

SeedLists(mkts) ==
    {SortByFitness(LET In(i) == i \in picked
                       at == SelectSeq([i \in DOMAIN SeedPool |-> i], In)
                   IN  [k \in DOMAIN at |-> backtest_combo(SeedPool[at[k]], mkts, WALLETS)]) :
        picked \in SUBSET DOMAIN SeedPool}

InitClimb ==
    /\ markets \in OptDatasets
    /\ tier2_top \in SeedLists(markets)
    /\ pc = "tier3"
    /\ phase = "seed"
    /\ seed_i = 1
    /\ refined = <<>>
    /\ work = <<>>
    /\ tier_results = <<>>
    /\ cat_i = 0
    /\ category_results = <<>>
    /\ current = <<>>
    /\ current_fitness = RatInt(0)
    /\ persisted = FALSE
    /\ evaluated = {}
    /\ BacktestIdle
    /\ chain = NoChain
    /\ signal_confidence = NoAggregate
    /\ DbEmpty
    /\ RunIdle

NextClimb ==
    \/ Tier3Seed
    \/ Tier3AcceptAdd
    \/ Tier3RejectAdd
    \/ Tier3AddsDone
    \/ Tier3AcceptRemove
    \/ Tier3RejectRemove
    \/ Tier3RemovesDone
    \/ Tier3Final
    \/ Tier3Return

\* a backtest step of the climb is due: a candidate of the scan under way, or
\* the final backtest of the seed (the guards of Tier3AcceptAdd or
\* Tier3RejectAdd, Tier3AcceptRemove or Tier3RejectRemove, and Tier3Final)
BacktestDue ==
    /\ pc = "tier3"
    /\ \/ phase \in {"add", "remove"} /\ work # <<>>
       \/ phase = "final"

\* weak fairness of the backtest steps, with their guards written out: a
\* backtest that stays due is run
BacktestsRun == []<>(~BacktestDue) \/ []<><<BacktestDue>>_vars

SpecClimb ==
    /\ InitClimb
    /\ [][NextClimb]_vars
    /\ WF_vars(Tier3Seed)
    /\ WF_vars(Tier3AddsDone)
    /\ WF_vars(Tier3RemovesDone)
    /\ WF_vars(Tier3Return)
    /\ BacktestsRun

----------------------------------------------------------------------------
(* Properties of backtest_combo *)

CutoffTime(mkt, cf) ==
    RatAdd(RatInt(mkt.created_at),
           RatMul(Rat(cf, 10), RatInt(mkt.end_date - mkt.created_at)))

PlacedByCutoff(b) == RatLeq(RatInt(b.timestamp), CutoffTime(market, cutoff_fraction))

\* C1: no look-ahead.  Every bet handed to a detector of the chain (the
\* detectors forwarding subsets of what they were given) was placed no later
\* than created_at + cutoff_fraction * (end_date - created_at).
C1_NoLookAhead ==
    \A i \in DOMAIN chain.handed :
        \A j \in DOMAIN chain.handed[i] : PlacedByCutoff(chain.handed[i][j])

\* a two-detector chain ran on a market that has bets after the cutoff, and
\* the second detector was handed what the first one forwarded
C1_Witness ==
    /\ Len(chain.handed) = 2
    /\ chain.handed[2] # <<>>
    /\ chain.handed[2] # chain.handed[1]
    /\ \E j \in DOMAIN market.bets : ~PlacedByCutoff(market.bets[j])

Eligible ==
    /\ market.resolved
    /\ market.outcome # NULL
    /\ Len(market.bets) >= 5
    /\ market.end_date > market.created_at
    /\ Cardinality({j \in DOMAIN market.bets : PlacedByCutoff(market.bets[j])}) >= 3
    /\ chain.results # <<>>

\* C2: the market the loop has just read is counted in total_markets iff it
\* is resolved with an outcome, has at least 5 bets, a positive lifespan, at
\* least 3 visible bets and a detector that returned; any other market
\* leaves all five accumulators as they were.
C2_CountedIffEligible ==
    (mi > 0 /\ pc # "raised") =>
        /\ Eligible => total_markets = snap.total_markets + 1
        /\ ~Eligible => Acc = snap

\* the second market of a run is turned away for its lifespan and the first
\* one, already counted, keeps its place in the accumulators
C2_Witness ==
    /\ mi = 2
    /\ market.resolved /\ market.outcome # NULL /\ Len(market.bets) >= 5
    /\ market.end_date <= market.created_at
    /\ total_markets = 1
    /\ Acc = snap

ChainRan == chain.handed # <<>>

Returned(i) ==
    Detect(METHODS[combo[i]].fn, market, chain.handed[i],
           MarketWallets(CapBets(VisibleBets(market, cutoff_fraction)), WALLETS)).ok

\* C3: a raising detector is left out of the aggregation of that market only:
\* every detector of the combo is still called, in order, no exception leaves
\* backtest_combo, the market is scored from the detectors that returned,
\* and a market on which every detector raised is not counted.
C3_RaiseIsContained ==
    /\ pc # "raised"
    /\ ChainRan =>
        /\ chain.called = combo
        /\ Len(chain.results) = Cardinality({i \in DOMAIN combo : Returned(i)})
        /\ chain.results # <<>> => total_markets = snap.total_markets + 1
        /\ chain.results = <<>> => Acc = snap

\* the first detector of a pair raised, the second was called and the market
\* was scored from it
C3_Witness ==
    /\ Len(combo) = 2
    /\ chain.called = combo
    /\ ~Returned(1)
    /\ Len(chain.results) = 1
    /\ total_markets = snap.total_markets + 1

\* C9: the result has accuracy in [0,1], edge_vs_market >= 0 and
\* false_positive_rate in [0,1]; false_positives never exceeds
\* high_confidence_preds and correct never exceeds total_markets.
C9_RatesInRange ==
    /\ false_positives <= high_confidence_preds
    /\ correct <= total_markets
    /\ pc = "done" =>
        /\ RatLeq(RatInt(0), cr.accuracy) /\ RatLeq(cr.accuracy, RatInt(1))
        /\ RatLeq(RatInt(0), cr.edge_vs_market)
        /\ RatLeq(RatInt(0), cr.false_positive_rate)
        /\ RatLeq(cr.false_positive_rate, RatInt(1))

\* a result over two markets with a confident miss, a hit and some edge
C9_Witness ==
    /\ pc = "done"
    /\ total_markets = 2
    /\ false_positives = 1
    /\ correct = 1
    /\ RatLess(RatInt(0), cr.edge_vs_market)

\* C4: a run in which no market is eligible never returns a ComboResults
\* (one whose accuracy, edge and false-positive rate were filled in as zero).
C4_NoResultWithoutMarkets == pc = "done" => total_markets > 0

\* C5: the fitness of the result is
\* accuracy*W_acc + edge*W_edge - fpr*W_fp - (complexity/TOTAL_METHODS)*W_complexity.
C5_FitnessUsesTotalMethods ==
    pc = "done" =>
        cr.fitness_score = FitnessWith(cr.accuracy, cr.edge_vs_market,
                               cr.false_positive_rate, cr.complexity, TOTAL_METHODS)

----------------------------------------------------------------------------
(* Properties of the aggregation *)

RatDiv(a, b) == Rat(a.n * b.d, a.d * b.n)
Clamp(x, lo, hi) == IF RatLess(x, lo) THEN lo ELSE IF RatLess(hi, x) THEN hi ELSE x

RECURSIVE Fold(_, _, _)
Fold(F(_), rs, k) == IF k = 0 THEN RatInt(0) ELSE RatAdd(F(rs[k]), Fold(F, rs, k - 1))

\* C10: the aggregate is signal = sum(signal_i * confidence_i) / sum(confidence_i)
\* clamped to [-1,1] and confidence = sum(confidence_i) / n clamped to [0,1],
\* and it is (0, 0) when the list is empty or the total confidence is 0.
C10_WeightedMean ==
    pc \in {"aggregated", "reported"} =>
        LET rs == chain.results
            n == Len(rs)
            Conf(r) == r.confidence
            Weighted(r) == RatMul(r.signal, r.confidence)
            W == Fold(Conf, rs, n)
        IN  IF n = 0 \/ W.n = 0
            THEN signal_confidence = [signal |-> RatInt(0), confidence |-> RatInt(0)]
            ELSE /\ signal_confidence.signal =
                        Clamp(RatDiv(Fold(Weighted, rs, n), W), RatInt(0 - 1), RatInt(1))
                 /\ signal_confidence.confidence =
                        Clamp(RatDiv(W, RatInt(n)), RatInt(0), RatInt(1))

\* two results of opposite sign and unequal confidence were aggregated
C10_Witness ==
    /\ pc = "aggregated"
    /\ Len(chain.results) = 2
    /\ chain.results[1].signal = RatInt(1)
    /\ chain.results[2].signal = RatInt(0 - 1)
    /\ chain.results[1].confidence = Rat(1, 5)
    /\ chain.results[2].confidence = RatInt(1)
    /\ signal_confidence.signal = Rat(0 - 2, 3)

----------------------------------------------------------------------------
(* Properties of the result store *)

\* C6: every ComboResults a tier gets back from backtest_combo, those of the
\* rejected Tier-3 candidates included, is handed to insert_method_result
\* before the next combo is evaluated.
C6_EveryResultPersisted == combo # <<>> => persisted

\* the result store holds, committed, a row that covers the result e
Retained(e) ==
    \E row \in db_committed :
        /\ row.combo_id = e.combo_id
        /\ RatLeq(e.fitness_score, row.fitness_score)

\* C7: a run interrupted at any point keeps all progress: every result
\* evaluated before the interruption is committed in the result store, up to
\* the keep-the-maximum rule per combo_id.
C7_InterruptKeepsProgress == pc = "interrupted" => \A e \in evaluated : Retained(e)

MaxUpserted(cid) ==
    CHOOSE f \in {u.fitness_score : u \in {v \in upserted : v.combo_id = cid}} :
        \A u \in upserted : u.combo_id = cid => RatLeq(u.fitness_score, f)

\* C8: the table holds at most one row per combo_id, that row's fitness is
\* the maximum of the fitness of all results upserted for the combo_id since
\* it was last pruned, and an upsert of a lower fitness than the stored one
\* leaves the table as it was.
C8_KeepMaxPerComboId ==
    /\ \A x, y \in db_rows : x.combo_id = y.combo_id => x = y
    /\ \A u \in upserted :
         \E x \in db_rows : /\ x.combo_id = u.combo_id
                            /\ x.fitness_score = MaxUpserted(u.combo_id)
    /\ (/\ last_upsert.made
        /\ last_upsert.met # NoRow
        /\ RatLess(last_upsert.r.fitness_score, last_upsert.met.fitness_score))
         => last_upsert.met \in db_rows

\* a combo_id was upserted again with a lower fitness than the row holds,
\* after a higher one had replaced the first
C8_Witness ==
    /\ last_upsert.made
    /\ Cardinality({u \in upserted : u.combo_id = last_upsert.r.combo_id}) = 3
    /\ \E x \in db_rows :
          /\ x.combo_id = last_upsert.r.combo_id
          /\ RatLess(last_upsert.r.fitness_score, x.fitness_score)

----------------------------------------------------------------------------
(* split_holdout *)

\* C11: split_holdout is size-exact and a partition: len(train) is
\* floor(n * (1 - f)), the two parts together have the n markets, every
\* market of the input is in exactly one part, and an empty input gives
\* two empty lists.
C11_SizeExactPartition ==
    pc = "split_done" =>
        LET n == Len(usable_resolved)
            f == holdout_fraction
            both == train_markets \o holdout_markets
        IN  /\ Len(train_markets) = (n * (f.d - f.n)) \div f.d
            /\ Len(train_markets) + Len(holdout_markets) = n
            /\ \A i \in 1..n :
                  Cardinality({j \in DOMAIN both : both[j] = usable_resolved[i]}) = 1
            /\ n = 0 => train_markets = <<>> /\ holdout_markets = <<>>

\* C12: whatever the order and the ties of the input, when both parts are
\* non-empty every train market was created no later than every holdout
\* market.
C12_TemporallyOrdered ==
    (pc = "split_done" /\ train_markets # <<>> /\ holdout_markets # <<>>) =>
        \A i \in DOMAIN train_markets : \A j \in DOMAIN holdout_markets :
            train_markets[i].created_at <= holdout_markets[j].created_at

\* an input that is not in order of created_at, split into two non-empty
\* parts with a tie across the cut
C12_Witness ==
    /\ pc = "split_done"
    /\ train_markets # <<>>
    /\ holdout_markets # <<>>
    /\ \E i, j \in DOMAIN usable_resolved :
          i < j /\ usable_resolved[i].created_at > usable_resolved[j].created_at
    /\ train_markets[Len(train_markets)].created_at = holdout_markets[1].created_at

\* C13: when split_holdout gives fewer than 5 holdout markets, the run
\* treats the holdout as unavailable and still completes the optimization
\* on the train markets, without raising.
C13_SmallHoldoutStillOptimizes ==
    (holdout_none /\ Len(usable_resolved) >= MIN_USABLE_RESOLVED
        /\ pc \notin {"holdout_check", "optimize"}) => pc = "optimized"

----------------------------------------------------------------------------
(* the chain *)

\* C14: a combo with a method id the registry lacks fails fast wherever it
\* is executed: the error comes before any market is scored, and the
\* handler of the detectors never catches it as a failed detector.
C14_UnknownIdFailsFast ==
    LookupFails(combo) =>
        /\ chain.lookup_failed = <<>>
        /\ chain.results = <<>>
        /\ pc # "reported"
        /\ total_markets = 0

----------------------------------------------------------------------------
(* the optimizer *)

\* C15: no combo a phase of the optimizer hands to backtest_combo is empty:
\* not a Tier-1 subset, not a Tier-2 merge, not a Tier-3 candidate of an
\* addition or a removal, not the Tier-3 final re-evaluation.
C15_NoEmptyCombo ==
    /\ evaluated # {} => combo # <<>>
    /\ \A e \in evaluated : e.combo_id # <<>>

\* Tier 3 has evaluated, and taken, the removal of a method from a pair:
\* the smallest candidate a removal can give
C15_Witness ==
    /\ pc = "tier3"
    /\ phase = "add"
    /\ Len(current) = 1
    /\ combo = current
    /\ cr.combo_id = ComboId(combo)
    /\ persisted

\* the fitness backtest_combo gives the combo c on the markets of the run
FitnessOf(c) == backtest_combo(c, markets, WALLETS).fitness_score

\* no combo one addition or one removal away from the seed is strictly fitter
LocalOptimum(seed) ==
    /\ \A m \in Range(get_all_method_ids) \ Range(seed.methods_used) :
          ~RatLess(seed.fitness_score, FitnessOf(Append(seed.methods_used, m)))
    /\ Len(seed.methods_used) > 1 =>
          \A m \in Range(seed.methods_used) :
              ~RatLess(seed.fitness_score, FitnessOf(Without(seed.methods_used, m)))

\* C16: tier3 run on a seed that is already a local optimum on the markets
\* accepts no move and returns a result with the seed's combo_id,
\* methods_used, accuracy, edge_vs_market, false_positive_rate, complexity
\* and fitness_score.
C16_LocalOptimumIsFixpoint ==
    LocalOptimum(tier2_top[1]) =>
        /\ phase \in {"add", "remove", "final"} =>
              /\ current = tier2_top[1].methods_used
              /\ current_fitness = tier2_top[1].fitness_score
        /\ persisted => combo = tier2_top[1].methods_used
        /\ refined # <<>> => refined = <<tier2_top[1]>>

\* tier3 has returned from a pair that is a local optimum, after it tried
\* every addition and both removals
C16_Witness ==
    /\ pc = "prune"
    /\ LocalOptimum(tier2_top[1])
    /\ Len(tier2_top[1].methods_used) = 2
    /\ Len(refined) = 1
    /\ Cardinality(evaluated) > 1

----------------------------------------------------------------------------
(* fitness *)

\* C17: with accuracy, edge_vs_market and false_positive_rate held fixed,
\* calculate_fitness is strictly decreasing in complexity: for c1 < c2 the
\* fitness at c1 is strictly greater than the fitness at c2.
C17_StrictlyDecreasingInComplexity ==
    pc = "fitness" =>
        \A i, j \in DOMAIN tier_results :
            tier_results[i].complexity < tier_results[j].complexity =>
                RatLess(tier_results[j].fitness_score, tier_results[i].fitness_score)

\* the accuracy of tests/test_engine.py (0.6) scored at complexity 1 and at
\* complexity 5, as test_fitness_complexity_penalty does
C17_Witness ==
    /\ pc = "fitness"
    /\ \E i, j \in DOMAIN tier_results :
          /\ tier_results[i].complexity = 1
          /\ tier_results[j].complexity = 5
          /\ tier_results[i].accuracy = Rat(6, 10)
          /\ tier_results[j].accuracy = Rat(6, 10)
          /\ RatLess(tier_results[j].fitness_score, tier_results[i].fitness_score)

----------------------------------------------------------------------------
(* the chain of one market *)

InReport == pc \in {"report_chain", "reported"}

\* the bets and the wallets the chain of the market started from
ChainStart ==
    IF InReport THEN market.bets ELSE CapBets(VisibleBets(market, cutoff_fraction))

ChainWallets ==
    IF InReport THEN ReportWallets ELSE MarketWallets(ChainStart, WALLETS)

\* what the k-th detector called made of the bets it was handed
CallResult(k) ==
    Detect(METHODS[chain.called[k]].fn, market, chain.handed[k], ChainWallets)

\* the results of the calls made so far, in call order
CallResults == [k \in DOMAIN chain.called |-> CallResult(k)]

\* the calls before the k-th that returned a filtered_bets list with bets in it
Filtering(rs, k) ==
    {i \in 1..(k - 1) : rs[i].ok /\ rs[i].filtered_bets # <<>>}

\* the cursor after the first k - 1 calls
ExpectedBets(rs, k) ==
    IF Filtering(rs, k) = {} THEN ChainStart
    ELSE rs[CHOOSE i \in Filtering(rs, k) : \A j \in Filtering(rs, k) : j <= i].filtered_bets

IsKnown(mid) == mid \in DOMAIN METHODS

BetFilters == {"sandpit", "yes_side"}

\* the k-th call kept none of the bets it was handed
FilteredEverything(k) ==
    /\ METHODS[chain.called[k]].fn \in BetFilters
    /\ chain.handed[k] # <<>>
    /\ CallResult(k).ok
    /\ CallResult(k).filtered_bets = <<>>

\* C19: when a detector returns an empty filtered_bets because it filtered
\* out every bet it was given, the detectors after it in the chain receive
\* the empty list, not the bets the filtering detector was given.
C19_EmptyFilterIsPassedOn ==
    \A k \in DOMAIN chain.called :
        (FilteredEverything(k) /\ k < Len(chain.called)) => chain.handed[k + 1] = <<>>

----------------------------------------------------------------------------
(* scoring of a counted market *)

\* the market of the last turn of the loop was counted
Counted == total_markets = snap.total_markets + 1

SignalPositive == signal_confidence.signal.n * signal_confidence.signal.d > 0

Predicted == IF SignalPositive THEN "YES" ELSE "NO"

\* confidence > 0.3, in tenths
Confident == signal_confidence.confidence.n * 10 > 3 * signal_confidence.confidence.d

\* C20: for every counted market, backtest_combo predicts YES iff the
\* aggregated signal is strictly greater than 0 (a signal of exactly 0
\* predicts NO); correct increments iff the prediction equals
\* market.outcome; high_confidence increments iff confidence exceeds the
\* threshold; false_positive increments iff the prediction is wrong and
\* confidence exceeds the threshold; accuracy = correct / n.
C20_PredictionAndCounts ==
    /\ Counted =>
        /\ correct = snap.correct + (IF Predicted = market.outcome THEN 1 ELSE 0)
        /\ high_confidence_preds = snap.high_confidence_preds + (IF Confident THEN 1 ELSE 0)
        /\ false_positives =
              snap.false_positives + (IF Predicted # market.outcome /\ Confident THEN 1 ELSE 0)
    /\ ~Counted =>
        /\ correct = snap.correct
        /\ high_confidence_preds = snap.high_confidence_preds
        /\ false_positives = snap.false_positives
    /\ (pc = "done" /\ total_markets > 0) =>
        cr.accuracy.n * total_markets = correct * cr.accuracy.d

\* a market that resolved YES on which the confident detectors cancel to a
\* signal of exactly 0: predicted NO, a false positive
C20_Witness ==
    /\ Counted
    /\ signal_confidence.signal.n = 0
    /\ Confident
    /\ market.outcome = "YES"
    /\ correct = snap.correct
    /\ false_positives = snap.false_positives + 1
    /\ high_confidence_preds = snap.high_confidence_preds + 1

\* the naive baseline: YES iff the median odds of the visible bets is above
\* one half (odds are in hundredths)
MarketImplied ==
    LET visible == CapBets(VisibleBets(market, cutoff_fraction))
    IN  IF visible # <<>> /\ RatLess(RatInt(50), Median([i \in DOMAIN visible |-> visible[i].odds]))
        THEN "YES" ELSE "NO"

AddsEdge == Predicted = market.outcome /\ MarketImplied # market.outcome

\* C21: for every counted market, edge_sum increases by abs(signal) iff the
\* combo's prediction equals the outcome and the naive baseline (YES iff the
\* median odds of the market's visible bets is > 0.5, else NO) differs from
\* the outcome; otherwise edge_sum is unchanged; edge_vs_market = edge_sum / n.
C21_EdgeOverBaseline ==
    /\ (Counted /\ AddsEdge) =>
          edge_sum = RatAdd(snap.edge_sum, RatAbs(signal_confidence.signal))
    /\ ~(Counted /\ AddsEdge) => edge_sum = snap.edge_sum
    /\ (pc = "done" /\ total_markets > 0) =>
          RatMul(cr.edge_vs_market, RatInt(total_markets)) = edge_sum

\* a second counted market the combo called right and the market's odds
\* called wrong, after a first one that added edge too: the edge grew again
C21_Witness ==
    /\ Counted
    /\ AddsEdge
    /\ RatLess(RatInt(0), snap.edge_sum)
    /\ RatLess(snap.edge_sum, edge_sum)
    /\ edge_sum = RatAdd(snap.edge_sum, RatAbs(signal_confidence.signal))

----------------------------------------------------------------------------
(* the optimizer's tiers *)

\* the ids of a category's search list that are registered under it
Available(cat) == {m \in Range(CATEGORIES[cat]) : m \in get_methods_by_category(cat)}

\* the subsets Tier 1 is to try for a category
CategorySubsets(cat) ==
    {S \in SUBSET Available(cat) : Cardinality(S) >= 1 /\ Cardinality(S) <= MAX_TIER1_COMBO_SIZE}

\* the combos of the category under way: those already backtested, then
\* those still to come
Tier1Pass ==
    [i \in 1..Len(tier_results) |-> tier_results[i].methods_used] \o work

\* what was evaluated of a category's subsets
EvaluatedOf(cat) == {e \in evaluated : Range(e.combo_id) \in CategorySubsets(cat)}

\* C22: Tier 1 backtests, for each category independently, exactly the
\* subsets of that category's available method ids of size 1 to
\* MAX_TIER1_COMBO_SIZE, each exactly once and never mixing categories, and
\* keeps as finalists at most TIER1_TOP_PER_CATEGORY results such that no
\* discarded result of that category has strictly higher fitness than a
\* finalist.
C22_Tier1SubsetsAndFinalists ==
    /\ pc = "tier1" =>
        LET cat == CategoryOrder[cat_i]
        IN  /\ Len(Tier1Pass) = Cardinality(CategorySubsets(cat))
            /\ \A S \in CategorySubsets(cat) :
                  Cardinality({i \in DOMAIN Tier1Pass : Range(Tier1Pass[i]) = S}) = 1
            /\ \A i \in DOMAIN Tier1Pass :
                  /\ Range(Tier1Pass[i]) \in CategorySubsets(cat)
                  /\ Cardinality(Range(Tier1Pass[i])) = Len(Tier1Pass[i])
            /\ evaluated =
                  UNION {EvaluatedOf(CategoryOrder[k]) : k \in 1..(cat_i - 1)}
                     \cup {[combo_id |-> tier_results[i].combo_id,
                            fitness_score |-> tier_results[i].fitness_score] :
                              i \in DOMAIN tier_results}
    /\ \A k \in DOMAIN category_results :
        LET cat == CategoryOrder[k]
            top == category_results[k]
            kept == {top[i].combo_id : i \in DOMAIN top}
        IN  /\ Len(top) <= TIER1_TOP_PER_CATEGORY
            /\ Len(top) = Min(TIER1_TOP_PER_CATEGORY, Cardinality(CategorySubsets(cat)))
            /\ {Range(e.combo_id) : e \in EvaluatedOf(cat)} = CategorySubsets(cat)
            /\ \A i \in DOMAIN top : Range(top[i].methods_used) \in CategorySubsets(cat)
            /\ \A e \in EvaluatedOf(cat) :
                  e.combo_id \notin kept =>
                      \A i \in DOMAIN top : ~RatLess(top[i].fitness_score, e.fitness_score)

\* Tier 1 is over: the last category had more subsets than places, and a
\* subset that was dropped scored strictly below every finalist
C22_Witness ==
    /\ pc = "tier2"
    /\ Len(category_results) = Len(CategoryOrder)
    /\ LET cat == CategoryOrder[Len(CategoryOrder)]
           top == category_results[Len(CategoryOrder)]
       IN  /\ Len(top) = TIER1_TOP_PER_CATEGORY
           /\ Cardinality(CategorySubsets(cat)) > TIER1_TOP_PER_CATEGORY
           /\ \E e \in EvaluatedOf(cat) :
                 \A i \in DOMAIN top : RatLess(e.fitness_score, top[i].fitness_score)

\* the pool of Tier 2: the method lists of the Tier-1 finalists
Pool == Finalists(category_results)

\* the groups of 2 or 3 distinct finalists, as ascending positions in the pool
PoolGroups(pool) ==
    LET at == DOMAIN pool
    IN  {g \in at \X at : g[1] < g[2]}
            \cup {g \in at \X at \X at : g[1] < g[2] /\ g[2] < g[3]}

\* the method lists of a group, one after the other in pool order
Concatenated(pool, g) ==
    IF Len(g) = 2 THEN pool[g[1]] \o pool[g[2]]
    ELSE pool[g[1]] \o pool[g[2]] \o pool[g[3]]

FirstAt(x, s) == CHOOSE i \in DOMAIN s : s[i] = x /\ \A j \in 1..(i - 1) : s[j] # x

\* c is s with every repeated id removed but its first occurrence
IsFirstOccurrences(c, s) ==
    /\ Range(c) = Range(s)
    /\ Cardinality(Range(c)) = Len(c)
    /\ \A a, b \in DOMAIN c : a < b => FirstAt(c[a], s) < FirstAt(c[b], s)

\* the combos of Tier 2: those already backtested, then those still to come
Tier2Pass ==
    [i \in 1..Len(tier_results) |-> tier_results[i].methods_used] \o work

FitnessAbove(rs, v) == Cardinality({i \in DOMAIN rs : RatLess(v, rs[i].fitness_score)})

\* C23: every combo Tier 2 backtests is the concatenation, in pool order, of
\* the method lists of 2 or 3 distinct Tier-1 finalists with repeated ids
\* removed keeping the first occurrence; every such group is evaluated; and
\* Tier 2 returns at most TIER2_TOP_OVERALL results sorted by fitness
\* descending with no discarded result of strictly higher fitness.
C23_Tier2MergesAndTop ==
    /\ pc = "tier2" =>
        \A pool \in {Pool} : \A groups \in {PoolGroups(pool)} :
        \A pass \in {Tier2Pass} :
        \A lists \in {{Concatenated(pool, g) : g \in groups}} :
            /\ Len(pass) = Cardinality(groups)
            /\ \A i \in DOMAIN pass : \E s \in lists : IsFirstOccurrences(pass[i], s)
            /\ \A s \in lists : \E i \in DOMAIN pass : IsFirstOccurrences(pass[i], s)
    /\ pc \in {"tier3", "prune", "returned"} =>
        /\ Len(tier_results) = Cardinality(PoolGroups(Pool))
        /\ Len(tier2_top) = Min(TIER2_TOP_OVERALL, Len(tier_results))
        /\ \A i \in DOMAIN tier2_top : \E j \in DOMAIN tier_results : tier2_top[i] = tier_results[j]
        /\ \A i \in DOMAIN tier2_top : i > 1 =>
              ~RatLess(tier2_top[i - 1].fitness_score, tier2_top[i].fitness_score)
        /\ \A i \in DOMAIN tier2_top :
              FitnessAbove(tier_results, tier2_top[i].fitness_score)
                 = FitnessAbove(tier2_top, tier2_top[i].fitness_score)

\* Tier 2 returned its ten best of more: one of them was merged from
\* finalists that share an id, and a result was left out
C23_Witness ==
    /\ pc = "tier3"
    /\ phase = "seed"
    /\ seed_i = 1
    /\ Len(tier2_top) = TIER2_TOP_OVERALL
    /\ Len(tier_results) > TIER2_TOP_OVERALL
    /\ RatLess(tier2_top[TIER2_TOP_OVERALL].fitness_score, tier2_top[1].fitness_score)
    /\ \E i \in DOMAIN tier2_top : \E g \in PoolGroups(Pool) :
          /\ IsFirstOccurrences(tier2_top[i].methods_used, Concatenated(Pool, g))
          /\ Len(tier2_top[i].methods_used) < Len(Concatenated(Pool, g))
    /\ \E j \in DOMAIN tier_results :
          RatLess(tier_results[j].fitness_score, tier2_top[TIER2_TOP_OVERALL].fitness_score)

----------------------------------------------------------------------------
(* the climb of Tier 3 *)

AddImproves(m) == RatLess(current_fitness, FitnessOf(Append(current, m)))

RemoveImproves(m) == RatLess(current_fitness, FitnessOf(Without(current, m)))

\* no unused detector's addition is strictly fitter than the current combo
NoAddImproves == \A m \in Range(Unused(get_all_method_ids, current)) : ~AddImproves(m)

\* a step of the climb that moves to another combo
Tier3Moves == pc = "tier3" /\ phase \in {"add", "remove"} /\ current' # current

\* a step of the climb that tried a removal
Tier3TriesRemoval == pc = "tier3" /\ phase = "remove" /\ work # <<>> /\ cr' # cr

Tier3Step ==
    /\ Tier3Moves =>
          /\ RatLess(current_fitness, current_fitness')
          /\ current_fitness' = FitnessOf(current')
          /\ phase' = "add"
          /\ work' = Unused(get_all_method_ids, current')
    /\ (Tier3Moves /\ phase = "add") =>
          LET unused == Unused(get_all_method_ids, current)
          IN  \E i \in DOMAIN unused :
                 /\ AddImproves(unused[i])
                 /\ \A j \in 1..(i - 1) : ~AddImproves(unused[j])
                 /\ current' = Append(current, unused[i])
    /\ (Tier3Moves /\ phase = "remove") =>
          \E i \in DOMAIN current :
             /\ RemoveImproves(current[i])
             /\ \A j \in 1..(i - 1) : ~RemoveImproves(current[j])
             /\ current' = Without(current, current[i])
    /\ Tier3TriesRemoval => (Len(current) > 1 /\ NoAddImproves)
    /\ (pc = "tier3" /\ phase = "add" /\ phase' # "add") => NoAddImproves

\* C24: Tier 3 is first-improvement hill-climbing: a move is accepted only if
\* the candidate's fitness is strictly greater than the current fitness;
\* unused detectors are scanned in universe order and the first improving
\* addition is accepted, after which the scan restarts from additions; a
\* removal is attempted only in a pass where no addition improved and the
\* current combo has more than one member, and the first improving removal
\* is accepted.
C24_FirstImprovementClimb == [][Tier3Step]_vars

\* the climb has just dropped a member of a combo it had grown before, and
\* is back at the additions
C24_Witness ==
    /\ pc = "tier3"
    /\ phase = "add"
    /\ persisted
    /\ combo = current
    /\ work = Unused(get_all_method_ids, current)
    /\ Len(current) >= 1
    /\ Range(current) \subseteq Range(tier2_top[1].methods_used)
    /\ Len(current) < Len(tier2_top[1].methods_used)
    /\ RatLess(tier2_top[1].fitness_score, current_fitness)

\* C25: when Tier 3 finishes a seed, the returned combo is a local optimum
\* with fitness >= the seed's fitness: no single unused detector's addition
\* and, if the combo has more than one member, no single member's removal
\* yields a fitness strictly greater than the returned result's fitness.
C25_ReturnedIsLocalOptimum ==
    \A k \in DOMAIN refined :
        /\ LocalOptimum(refined[k])
        /\ refined[k].fitness_score = FitnessOf(refined[k].methods_used)
        /\ pc = "tier3" => ~RatLess(refined[k].fitness_score, tier2_top[k].fitness_score)
        /\ \E i \in 1..Seeds : ~RatLess(refined[k].fitness_score, tier2_top[i].fitness_score)

\* the climb left its seed and returned a strictly fitter combo
C25_Witness ==
    /\ pc = "prune"
    /\ Len(refined) = 1
    /\ refined[1].methods_used # tier2_top[1].methods_used
    /\ RatLess(tier2_top[1].fitness_score, refined[1].fitness_score)
    /\ LocalOptimum(refined[1])

\* tier3 has returned: one result for each of the seeds it took, best first
Tier3Returned ==
    /\ pc = "prune"
    /\ Len(refined) = Min(Len(tier2_top), MAX_TIER3_SEEDS)
    /\ \A i \in DOMAIN refined : i > 1 =>
          ~RatLess(refined[i - 1].fitness_score, refined[i].fitness_score)

\* C26: Tier 3 terminates for every seed: the add/remove loop accepts only
\* finitely many moves and always reaches a pass with no improving move,
\* returning one result per seed for at most MAX_TIER3_SEEDS seeds, sorted
\* by fitness descending.
C26_Tier3Terminates ==
    /\ (pc = "tier3") ~> Tier3Returned
    /\ \A k \in 1..MAX_TIER3_SEEDS :
          (pc = "tier3" /\ seed_i = k /\ phase \in {"add", "remove"}) ~> (Len(refined) >= k)

\* tier3 has returned three results from more than three seeds, and one of
\* them is a combo the climb moved to
C26_Witness ==
    /\ Tier3Returned
    /\ Len(tier2_top) > MAX_TIER3_SEEDS
    /\ Len(refined) = MAX_TIER3_SEEDS
    /\ \E k \in DOMAIN refined :
          \A i \in 1..MAX_TIER3_SEEDS : refined[k].methods_used # tier2_top[i].methods_used

----------------------------------------------------------------------------
(* the store at the end of a run *)

RowIds(rows) == {x.id : x \in rows}

\* the results of Tier 3 are in the committed table
Tier3Committed ==
    /\ db_committed = db_rows
    /\ \A k \in DOMAIN refined :
          \E x \in db_committed :
             /\ x.combo_id = refined[k].combo_id
             /\ RatLeq(refined[k].fitness_score, x.fitness_score)

PruneStep ==
    /\ (RowIds(db_committed) \ RowIds(db_committed') # {}) =>
          /\ pc = "prune"
          /\ Tier3Committed
    /\ pc = "prune" => Tier3Committed
    /\ (pc = "prune" /\ pc' = "returned") =>
          /\ Cardinality(db_rows') <= PRUNE_KEEP
          /\ db_rows' \subseteq db_rows
          /\ db_committed' = db_rows'
          /\ \A gone \in db_rows \ db_rows' : \A kept \in db_rows' :
                ~RatLess(kept.fitness_score, gone.fitness_score)

\* C27: in run_full_optimization the result store is pruned only after Tier
\* 3's results have been committed, and after pruning the store holds at
\* most 50 rows, no deleted row having strictly higher fitness than a
\* surviving row.
C27_PruneAfterCommit == [][PruneStep]_vars

\* the run stored more than 50 combos and has been pruned to 50
C27_Witness ==
    /\ pc = "returned"
    /\ db_seq > PRUNE_KEEP
    /\ Cardinality(db_rows) = PRUNE_KEEP
    /\ db_committed = db_rows
    /\ Len(refined) = MAX_TIER3_SEEDS

----------------------------------------------------------------------------
(* bets after the cutoff *)

\* the market with the bets placed after the cutoff taken away: it agrees
\* with the market on its metadata and on every bet up to the cutoff
WithoutLateBets(mkt, cf) == [mkt EXCEPT !.bets = VisibleBets(mkt, cf)]

\* C28: post-cutoff bets have no influence on a backtest: two datasets that
\* agree on every market's metadata and on all bets with timestamp <=
\* cutoff_time yield the same total_markets, accuracy, edge_vs_market,
\* false_positive_rate and fitness.  Market by market: the market the loop
\* has just read moves the accumulators exactly as the same market without
\* its late bets would.
C28_LateBetsHaveNoInfluence ==
    (mi > 0 /\ pc \in {"loop", "done"}) =>
        LET twin == MarketIteration(snap, combo, WithoutLateBets(market, cutoff_fraction),
                                    WALLETS, cutoff_fraction).acc
        IN  /\ Acc = twin
            /\ ComboResults(combo, Acc) = ComboResults(combo, twin)

----------------------------------------------------------------------------
(* the stored execution order *)

\* the figures of an evaluation or of a row
Figures(x) == <<x.accuracy, x.edge_vs_market, x.false_positive_rate, x.fitness_score>>

\* C29: after any sequence of upserts for one combo_id, the stored row's
\* methods_used is the method order of the evaluation whose accuracy, edge,
\* false-positive rate and fitness are stored in that row.  Upsert by
\* upsert: a row that has just taken the figures of an evaluation holds
\* that evaluation's methods_used.
C29_StoredOrderMatchesFigures ==
    last_upsert.made =>
        \A x \in db_rows :
            (/\ x.combo_id = last_upsert.r.combo_id
             /\ Figures(x) = Figures(last_upsert.r)
             /\ Figures(x) # Figures(last_upsert.met))
                => x.methods_used = last_upsert.r.methods_used

----------------------------------------------------------------------------
(* the seeds of Tier 3 *)

\* C30: the list returned by Tier 2, and therefore the seeds Tier 3 climbs
\* from, contains no two results with the same combo_id, for any set of
\* Tier-1 finalists (including finalists whose method lists overlap).
C30_Tier2NoRepeatedComboId ==
    \A i, j \in DOMAIN tier2_top :
        tier2_top[i].combo_id = tier2_top[j].combo_id => i = j

====
